---- MODULE Spec2Model ----
(***************************************************************************)
(* STL ingestion of AerodynamicOptimizer: the client's pre-transfer        *)
(* validation (client/src/lib/stlParser.ts) and the server's upload filter *)
(* and analysis (server/routes.ts, server/lib/stlParser.ts).               *)
(*                                                                         *)
(* A byte is an integer 0..255, a string is the sequence of its code       *)
(* points, and a JavaScript number is a record: "fin" (an exact rational   *)
(* n/d in lowest terms), "nan" or "inf" (n is the sign).                   *)
(***************************************************************************)
EXTENDS Integers, Sequences, FiniteSets, TLC

\* file: the file at hand, [name, buf]; recipe: how its bytes were made;
\* cres: what validateSTLFile answered for it on the client; sres: what the
\* upload and analyzeSTL answered for it on the server; cstate, sstate: how
\* far the client's validation and the server's upload and analysis of the
\* file have come (Received, Sniffed, Parsed, Validated, Accepted,
\* Rejected); cread: the client read the content of the file; facts: the
\* values of the expressions the statements of the two runs evaluate on the
\* file, which is never written
VARIABLES recipe, file, cres, sres, cstate, sstate, cread, facts,
          calls, up, store, reqs

\* what belongs to the file at hand
fileVars == <<recipe, file, cres, sres, cstate, sstate, cread, facts>>

\* calls: the invocations of analyzeSTL made so far, each with the buffer
\* it read and the result its caller holds; up: one call of uploadSTLFile
\* on the client; store: the MemStorage instance of the server; reqs: the
\* requests the server is handling
appVars == <<calls, up, store, reqs>>

vars == <<fileVars, appVars>>

(***************************************************************************)
(* Bounds of the model.                                                    *)
(***************************************************************************)
\* longest list of triangles encoded into a binary file
MaxTris == 2
\* most lines after the header line of a textual file
MaxLines == 3

(***************************************************************************)
(* JavaScript numbers.                                                     *)
(***************************************************************************)
Abs(n) == IF n < 0 THEN -n ELSE n

RECURSIVE GCD(_, _)
GCD(a, b) == IF b = 0 THEN a ELSE GCD(b, a % b)

RECURSIVE Pow2(_)
Pow2(k) == IF k = 0 THEN 1 ELSE 2 * Pow2(k - 1)

Fin(n, d) ==
  LET g == GCD(Abs(n), d)
  IN [k |-> "fin", n |-> n \div g, d |-> d \div g]

Int2Num(n) == [k |-> "fin", n |-> n, d |-> 1]
NaN == [k |-> "nan", n |-> 0, d |-> 1]
PosInf == [k |-> "inf", n |-> 1, d |-> 1]
NegInf == [k |-> "inf", n |-> -1, d |-> 1]

IsNaN(a) == a.k = "nan"
IsInteger(a) == a.k = "fin" /\ a.d = 1

\* a < b of the language: false as soon as one side is NaN
NumLt(a, b) ==
  /\ ~IsNaN(a)
  /\ ~IsNaN(b)
  /\ CASE a.k = "inf" /\ b.k = "inf" -> a.n < b.n
       [] a.k = "inf" -> a.n < 0
       [] b.k = "inf" -> b.n > 0
       [] OTHER -> a.n * b.d < b.n * a.d

\* a <= b of the language
NumLe(a, b) == ~IsNaN(a) /\ ~IsNaN(b) /\ ~NumLt(b, a)

\* Math.min and Math.max: NaN as soon as one argument is NaN
MathMin(a, b) ==
  IF IsNaN(a) \/ IsNaN(b) THEN NaN ELSE IF NumLt(b, a) THEN b ELSE a

MathMax(a, b) ==
  IF IsNaN(a) \/ IsNaN(b) THEN NaN ELSE IF NumLt(a, b) THEN b ELSE a

NumNeg(a) == [a EXCEPT !.n = -a.n]

\* a + b; Infinity + -Infinity is NaN
NumAdd(a, b) ==
  CASE IsNaN(a) \/ IsNaN(b) -> NaN
    [] a.k = "inf" /\ b.k = "inf" -> IF a.n = b.n THEN a ELSE NaN
    [] a.k = "inf" -> a
    [] b.k = "inf" -> b
    [] OTHER -> Fin(a.n * b.d + b.n * a.d, a.d * b.d)

NumSub(a, b) == NumAdd(a, NumNeg(b))

Sign(n) == IF n < 0 THEN -1 ELSE IF n > 0 THEN 1 ELSE 0

\* a * b; Infinity * 0 is NaN
NumMul(a, b) ==
  CASE IsNaN(a) \/ IsNaN(b) -> NaN
    [] a.k = "inf" \/ b.k = "inf" ->
         IF Sign(a.n) * Sign(b.n) = 0 THEN NaN
         ELSE [k |-> "inf", n |-> Sign(a.n) * Sign(b.n), d |-> 1]
    [] OTHER -> Fin(a.n * b.n, a.d * b.d)

\* a / n for an integer n > 0
NumDivInt(a, n) ==
  IF a.k = "fin" THEN Fin(a.n, a.d * n) ELSE a

\* Math.floor(a / b) for integers a >= 0, b > 0
FloorDiv(a, b) == a \div b

(***************************************************************************)
(* Byte buffers.  A buffer is its leading bytes `data` followed by `tail`  *)
(* zero bytes, so that a file of 100 MiB is a value of the model.          *)
(***************************************************************************)
BufLen(b) == Len(b.data) + b.tail

\* the byte at a 0-based offset below BufLen(b)
ByteAt(b, off) == IF off < Len(b.data) THEN b.data[off + 1] ELSE 0

\* the bytes at offsets from..to-1, for to <= BufLen(b)
Slice(b, from, to) == [i \in 1..(to - from) |-> ByteAt(b, from + i - 1)]

Zeros(n) == [i \in 1..n |-> 0]

(***************************************************************************)
(* Reads of fixed-width numbers.  A read is [ok, v]: ok = FALSE is the     *)
(* RangeError the runtime throws when the bytes asked for are not all      *)
(* inside the buffer.                                                      *)
(***************************************************************************)
\* the little-endian unsigned 32-bit integer at off .. off+3
UInt32LE(b, off) ==
  ByteAt(b, off) + 256 * ByteAt(b, off + 1) + 65536 * ByteAt(b, off + 2)
    + 16777216 * ByteAt(b, off + 3)

\* Buffer.readUInt32LE(off)
readUInt32LE(b, off) ==
  IF off + 4 > BufLen(b) THEN [ok |-> FALSE, v |-> 0]
  ELSE [ok |-> TRUE, v |-> UInt32LE(b, off)]

\* DataView.getUint32(off, true)
getUint32(b, off) ==
  IF off + 4 > BufLen(b) THEN [ok |-> FALSE, v |-> 0]
  ELSE [ok |-> TRUE, v |-> UInt32LE(b, off)]

\* The IEEE-754 binary32 value of four little-endian bytes.  Exact for the
\* zeros, the infinities, the NaNs and every value whose exponent field is in
\* 120..156 (magnitudes from 2^-7 up to 2^30); -0 is read as 0.
Float32Value(b0, b1, b2, b3) ==
  LET sgn == IF b3 >= 128 THEN -1 ELSE 1
      e == (b3 % 128) * 2 + (b2 \div 128)
      m == (b2 % 128) * 65536 + b1 * 256 + b0
      sig == 8388608 + m
  IN CASE e = 255 /\ m = 0 -> [k |-> "inf", n |-> sgn, d |-> 1]
       [] e = 255 /\ m # 0 -> NaN
       [] e = 0 /\ m = 0 -> Int2Num(0)
       [] e >= 150 /\ e <= 156 -> Fin(sgn * sig * Pow2(e - 150), 1)
       [] e >= 120 /\ e < 150 -> Fin(sgn * sig, Pow2(150 - e))

\* Buffer.readFloatLE(off)
readFloatLE(b, off) ==
  IF off + 4 > BufLen(b) THEN [ok |-> FALSE, v |-> NaN]
  ELSE [ok |-> TRUE,
        v |-> Float32Value(ByteAt(b, off), ByteAt(b, off + 1),
                           ByteAt(b, off + 2), ByteAt(b, off + 3))]

(***************************************************************************)
(* Strings.  A decoded string is its leading characters `chars` followed   *)
(* by `nuls` U+0000 characters (the decoded zero tail of a buffer).        *)
(***************************************************************************)
\* the characters of the word "solid", of "vertex" and of ".stl"
SOLID == <<115, 111, 108, 105, 100>>
VERTEX == <<118, 101, 114, 116, 101, 120>>
DOTSTL == <<46, 115, 116, 108>>

\* UTF-8 decoding of a byte sequence.  The byte alphabet of the model holds
\* no lead byte of a multi-byte sequence (0xC2..0xF4), so every byte above
\* 0x7F is malformed and decodes to U+FFFD.
Utf8Decode(bytes) ==
  [i \in 1..Len(bytes) |-> IF bytes[i] < 128 THEN bytes[i] ELSE 65533]

\* WhiteSpace and LineTerminator of the language: String.trim and \s
IsWhiteSpace(c) ==
  c \in {9, 10, 11, 12, 13, 32, 160, 5760, 8232, 8233, 8239, 8287, 12288, 65279}
    \/ (c >= 8192 /\ c <= 8202)

RECURSIVE TrimLeft(_)
TrimLeft(s) ==
  IF s = <<>> THEN s
  ELSE IF IsWhiteSpace(Head(s)) THEN TrimLeft(Tail(s)) ELSE s

RECURSIVE TrimRight(_)
TrimRight(s) ==
  IF s = <<>> THEN s
  ELSE IF IsWhiteSpace(s[Len(s)]) THEN TrimRight(SubSeq(s, 1, Len(s) - 1)) ELSE s

\* String.trim of a string without a tail
Trim(s) == TrimRight(TrimLeft(s))

\* String.toLowerCase (the letters A..Z; other characters of the alphabet
\* have no lower-case form)
ToLowerCase(s) ==
  [i \in 1..Len(s) |-> IF s[i] >= 65 /\ s[i] <= 90 THEN s[i] + 32 ELSE s[i]]

StartsWith(s, p) == Len(s) >= Len(p) /\ SubSeq(s, 1, Len(p)) = p

EndsWith(s, p) ==
  Len(s) >= Len(p) /\ SubSeq(s, Len(s) - Len(p) + 1, Len(s)) = p

\* String.split(sep) for a one-character separator: the parts between
\* consecutive separators
SplitOn(s, sep) ==
  LET seps == {i \in 1..Len(s) : s[i] = sep}
      n == Cardinality(seps)
      pos(k) == IF k = 0 THEN 0
                ELSE IF k = n + 1 THEN Len(s) + 1
                ELSE CHOOSE p \in seps : Cardinality({q \in seps : q < p}) = k - 1
  IN [k \in 1..(n + 1) |-> SubSeq(s, pos(k - 1) + 1, pos(k) - 1)]

\* String.split(/\s+/): split at every maximal run of white space
RECURSIVE SplitWs(_, _, _)
SplitWs(s, cur, acc) ==
  IF s = <<>> THEN Append(acc, cur)
  ELSE IF IsWhiteSpace(Head(s))
       THEN SplitWs(TrimLeft(s), <<>>, Append(acc, cur))
       ELSE SplitWs(Tail(s), Append(cur, Head(s)), acc)

IsDigit(c) == c >= 48 /\ c <= 57

RECURSIVE DigitRun(_)
DigitRun(s) ==
  IF s # <<>> /\ IsDigit(Head(s)) THEN <<Head(s)>> \o DigitRun(Tail(s)) ELSE <<>>

RECURSIVE DigitsValue(_, _)
DigitsValue(ds, acc) ==
  IF ds = <<>> THEN acc ELSE DigitsValue(Tail(ds), acc * 10 + (Head(ds) - 48))

RECURSIVE Pow10(_)
Pow10(k) == IF k = 0 THEN 1 ELSE 10 * Pow10(k - 1)

\* parseFloat: the longest prefix that is a decimal literal (sign, digits,
\* fraction), NaN when there is none.  Exponent parts and the word Infinity
\* are outside the token alphabet of the model.
parseFloat(tok) ==
  LET s == TrimLeft(tok)
      neg == s # <<>> /\ Head(s) = 45
      signed == s # <<>> /\ Head(s) \in {43, 45}
      body == IF signed THEN Tail(s) ELSE s
      ip == DigitRun(body)
      rest == SubSeq(body, Len(ip) + 1, Len(body))
      fp == IF rest # <<>> /\ Head(rest) = 46 THEN DigitRun(Tail(rest)) ELSE <<>>
      mag == Fin(DigitsValue(ip \o fp, 0), Pow10(Len(fp)))
  IN IF ip = <<>> /\ fp = <<>> THEN NaN
     ELSE IF neg THEN NumNeg(mag) ELSE mag

\* Buffer.toString('utf8') of a whole buffer
BufferToString(b) == [chars |-> Utf8Decode(b.data), nuls |-> b.tail]

\* String.split('\n') of a decoded buffer: the tail belongs to the last line
SplitLines(str) ==
  LET parts == SplitOn(str.chars, 10)
  IN [i \in 1..Len(parts) |->
        [chars |-> parts[i], nuls |-> IF i = Len(parts) THEN str.nuls ELSE 0]]

\* String.trim of a line: U+0000 is no white space, so a tail stops the trim
\* on its side
StrTrim(str) ==
  IF str.nuls = 0 THEN [chars |-> Trim(str.chars), nuls |-> 0]
  ELSE [chars |-> TrimLeft(str.chars), nuls |-> str.nuls]

\* String.startsWith for a prefix without U+0000
StrStartsWith(str, p) == StartsWith(str.chars, p)

\* String.split(/\s+/) of a line: the tail belongs to the last part
StrSplitWs(str) ==
  LET parts == SplitWs(str.chars, <<>>, <<>>)
  IN [i \in 1..Len(parts) |->
        [chars |-> parts[i], nuls |-> IF i = Len(parts) THEN str.nuls ELSE 0]]

\* parseFloat of a part: a U+0000 ends the literal like any other character
StrParseFloat(str) == parseFloat(str.chars)

\* TextDecoder.decode: UTF-8 with a leading byte-order mark removed
TextDecoderDecode(bytes) ==
  IF Len(bytes) >= 3 /\ SubSeq(bytes, 1, 3) = <<239, 187, 191>>
  THEN Utf8Decode(SubSeq(bytes, 4, Len(bytes)))
  ELSE Utf8Decode(bytes)

Min(a, b) == IF a < b THEN a ELSE b

(***************************************************************************)
(* client/src/lib/stlParser.ts                                             *)
(***************************************************************************)
\* 100 * 1024 * 1024
ClientMaxSize == 104857600

\* isAsciiSTL of the client: new Uint8Array(arrayBuffer, 0, 6) throws a
\* RangeError when the buffer holds fewer than six bytes
isAsciiSTL_client(buf) ==
  IF BufLen(buf) < 6 THEN [ok |-> FALSE, v |-> FALSE]
  ELSE [ok |-> TRUE,
        v |-> ToLowerCase(Trim(TextDecoderDecode(Slice(buf, 0, 6)))) = SOLID]

\* text.match(/solid\s+(.*)/): some "solid" is followed by white space
SolidMatch(text) ==
  \E i \in 1..Len(text) :
    /\ i + 5 <= Len(text)
    /\ SubSeq(text, i, i + 4) = SOLID
    /\ IsWhiteSpace(text[i + 5])

\* file.size > 100 * 1024 * 1024
TooLargeAtCeiling(f) == BufLen(f.buf) >= ClientMaxSize

TooLarge(f) == BufLen(f.buf) > ClientMaxSize

\* 84 + (faceCount * 50): header and count, then 50 bytes a facet
ExpectedSizeNoCount(faceCount) == 80 + (faceCount * 50)

ExpectedSize(faceCount) == 84 + (faceCount * 50)

Invalid(msg) ==
  [vertexCount |-> Int2Num(0), faceCount |-> Int2Num(0), isValid |-> FALSE,
   errorMessage |-> msg]

Valid(faceCount) ==
  [vertexCount |-> Int2Num(faceCount * 3), faceCount |-> Int2Num(faceCount),
   isValid |-> TRUE]

\* the message of the catch block for each error the try block can throw
FailedToParse(err) ==
  CASE err = "sniff" ->
         "Failed to parse STL file: Invalid typed array length: 6"
    [] err = "count" ->
         "Failed to parse STL file: Offset is outside the bounds of the DataView"

\* the try block of validateSTLFile: [threw, err, sniff, value]
ValidateBody(f) ==
  LET isAscii == isAsciiSTL_client(f.buf)
      text == TextDecoderDecode(Slice(f.buf, 0, Min(1000, BufLen(f.buf))))
      count == getUint32(f.buf, 80)
      faceCount == count.v
      expectedSize == ExpectedSize(faceCount)
  IN IF ~isAscii.ok
     THEN [threw |-> TRUE, err |-> "sniff", sniff |-> "threw",
           value |-> Invalid("")]
     ELSE IF isAscii.v
     THEN [threw |-> FALSE, err |-> "", sniff |-> "textual",
           value |-> IF ~SolidMatch(text)
                     THEN Invalid("Invalid ASCII STL file format")
                     ELSE Valid(FloorDiv(BufLen(f.buf), 400))]
     ELSE IF ~count.ok
     THEN [threw |-> TRUE, err |-> "count", sniff |-> "binary",
           value |-> Invalid("")]
     ELSE [threw |-> FALSE, err |-> "", sniff |-> "binary",
           value |-> IF BufLen(f.buf) < expectedSize
                     THEN Invalid("Binary STL file is corrupted or incomplete")
                     ELSE Valid(faceCount)]

\* validateSTLFile without its catch block: the exception leaves the function
validateSTLFileNoCatch(f) ==
  IF ~EndsWith(ToLowerCase(f.name), DOTSTL)
  THEN [status |-> "resolved", sniff |-> "none",
        value |-> Invalid("File must have .stl extension")]
  ELSE IF TooLarge(f)
  THEN [status |-> "resolved", sniff |-> "none",
        value |-> Invalid("File is too large (max 100MB)")]
  ELSE LET body == ValidateBody(f)
       IN [status |-> IF body.threw THEN "rejected" ELSE "resolved",
           sniff |-> body.sniff, value |-> body.value]

\* validateSTLFile: [status, sniff, value]; status "resolved" is the promise
\* fulfilled with value, "rejected" an exception leaving the function; sniff
\* is what isAsciiSTL answered ("none" when it was not called)
validateSTLFile(f) ==
  IF ~EndsWith(ToLowerCase(f.name), DOTSTL)
  THEN [status |-> "resolved", sniff |-> "none",
        value |-> Invalid("File must have .stl extension")]
  ELSE IF TooLarge(f)
  THEN [status |-> "resolved", sniff |-> "none",
        value |-> Invalid("File is too large (max 100MB)")]
  ELSE LET body == ValidateBody(f)
       IN IF body.threw
          THEN [status |-> "resolved", sniff |-> body.sniff,
                value |-> Invalid(FailedToParse(body.err))]
          ELSE [status |-> "resolved", sniff |-> body.sniff,
                value |-> body.value]

(***************************************************************************)
(* client/src/components/FileUploader.tsx                                  *)
(***************************************************************************)
\* validateAndSetFile: "ok" when the file is handed to handleUpload, else
\* the title of the toast shown
validateAndSetFile(f) ==
  IF ~EndsWith(ToLowerCase(f.name), DOTSTL) THEN "Invalid file type"
  ELSE IF BufLen(f.buf) > ClientMaxSize THEN "File too large"
  ELSE "ok"

(***************************************************************************)
(* server/lib/stlParser.ts                                                 *)
(***************************************************************************)
\* isAsciiSTL of the server: buffer.toString('utf8', 0, 6) stops at the end
\* of a shorter buffer
isAsciiSTL_server(buf) ==
  ToLowerCase(Trim(Utf8Decode(Slice(buf, 0, Min(6, BufLen(buf)))))) = SOLID

\* BoxStep with Math.max written where Math.min belongs
BoxStepMaxForMin(box, v) ==
  [min |-> <<MathMax(box.min[1], v[1]), MathMax(box.min[2], v[2]),
             MathMax(box.min[3], v[3])>>,
   max |-> <<MathMax(box.max[1], v[1]), MathMax(box.max[2], v[2]),
             MathMax(box.max[3], v[3])>>]

\* one step of the reduction of calculateBoundingBox
BoxStep(box, v) ==
  [min |-> <<MathMin(box.min[1], v[1]), MathMin(box.min[2], v[2]),
             MathMin(box.min[3], v[3])>>,
   max |-> <<MathMax(box.max[1], v[1]), MathMax(box.max[2], v[2]),
             MathMax(box.max[3], v[3])>>]

RECURSIVE BoxFold(_, _)
BoxFold(box, vertices) ==
  IF vertices = <<>> THEN box
  ELSE BoxFold(BoxStep(box, Head(vertices)), Tail(vertices))

ZeroBox ==
  [min |-> <<Int2Num(0), Int2Num(0), Int2Num(0)>>,
   max |-> <<Int2Num(0), Int2Num(0), Int2Num(0)>>]

calculateBoundingBox(vertices) ==
  IF Len(vertices) = 0 THEN ZeroBox
  ELSE BoxFold([min |-> <<PosInf, PosInf, PosInf>>,
                max |-> <<NegInf, NegInf, NegInf>>], vertices)

\* faceCount * 0.1
estimateSurfaceAreaTenth(faceCount) == NumMul(faceCount, Fin(1, 10))

\* faceCount * 0.01
estimateSurfaceArea(faceCount) == NumMul(faceCount, Fin(1, 100))

\* width * height * depth, the shape factor left out
estimateVolumeNoFactor(boundingBox) ==
  LET width == NumSub(boundingBox.max[1], boundingBox.min[1])
      height == NumSub(boundingBox.max[2], boundingBox.min[2])
      depth == NumSub(boundingBox.max[3], boundingBox.min[3])
  IN NumMul(NumMul(width, height), depth)

\* width * height * depth * 0.3
estimateVolume(boundingBox) ==
  LET width == NumSub(boundingBox.max[1], boundingBox.min[1])
      height == NumSub(boundingBox.max[2], boundingBox.min[2])
      depth == NumSub(boundingBox.max[3], boundingBox.min[3])
  IN NumMul(NumMul(NumMul(width, height), depth), Fin(3, 10))

\* the vertex pushed for one vertex line, <<>> when the line has fewer than
\* four parts
RECURSIVE AsciiVertices(_)
AsciiVertices(vertexLines) ==
  IF vertexLines = <<>> THEN <<>>
  ELSE LET parts == StrSplitWs(StrTrim(Head(vertexLines)))
           here == IF Len(parts) >= 4
                   THEN <<<<StrParseFloat(parts[2]), StrParseFloat(parts[3]),
                            StrParseFloat(parts[4])>>>>
                   ELSE <<>>
       IN here \o AsciiVertices(Tail(vertexLines))

\* parseAsciiSTL counting every line that is not blank as a vertex line
parseAsciiSTLEveryLine(buf) ==
  LET lines == SplitLines(BufferToString(buf))
      vertexLines == SelectSeq(lines, LAMBDA l : StrTrim(l).chars # <<>>)
      faceCount == NumDivInt(Int2Num(Len(vertexLines)), 3)
      vertexCount == NumMul(faceCount, Int2Num(3))
      vertices == AsciiVertices(vertexLines)
      boundingBox == calculateBoundingBox(vertices)
  IN [vertexCount |-> vertexCount,
      faceCount |-> faceCount,
      boundingBox |-> boundingBox,
      surfaceArea |-> estimateSurfaceArea(faceCount),
      volume |-> estimateVolume(boundingBox)]

parseAsciiSTL(buf) ==
  LET lines == SplitLines(BufferToString(buf))
      vertexLines == SelectSeq(lines, LAMBDA l : StrStartsWith(StrTrim(l), VERTEX))
      faceCount == NumDivInt(Int2Num(Len(vertexLines)), 3)
      vertexCount == NumMul(faceCount, Int2Num(3))
      vertices == AsciiVertices(vertexLines)
      boundingBox == calculateBoundingBox(vertices)
  IN [vertexCount |-> vertexCount,
      faceCount |-> faceCount,
      boundingBox |-> boundingBox,
      surfaceArea |-> estimateSurfaceArea(faceCount),
      volume |-> estimateVolume(boundingBox)]

\* the three readFloatLE of one vertex: [ok, v]
ReadVertex(buf, vOffset) ==
  LET x == readFloatLE(buf, vOffset)
      y == readFloatLE(buf, vOffset + 4)
      z == readFloatLE(buf, vOffset + 8)
  IN [ok |-> x.ok /\ y.ok /\ z.ok, v |-> <<x.v, y.v, z.v>>]

\* the loop reading each record from its first byte, the normal not skipped
RECURSIVE BinaryVerticesNoNormalSkip(_, _, _, _)
BinaryVerticesNoNormalSkip(buf, faceCount, i, vertices) ==
  IF i >= faceCount THEN [ok |-> TRUE, vertices |-> vertices]
  ELSE LET offset == 84 + (i * 50)
           v0 == ReadVertex(buf, offset)
           v1 == ReadVertex(buf, offset + 12)
           v2 == ReadVertex(buf, offset + 24)
       IN IF ~(v0.ok /\ v1.ok /\ v2.ok)
          THEN [ok |-> FALSE, vertices |-> <<>>]
          ELSE BinaryVerticesNoNormalSkip(buf, faceCount, i + 1,
                                          vertices \o <<v0.v, v1.v, v2.v>>)

\* the loop stopping at the first read outside the buffer and keeping the
\* vertices read so far
RECURSIVE BinaryVerticesPartial(_, _, _, _)
BinaryVerticesPartial(buf, faceCount, i, vertices) ==
  IF i >= faceCount THEN [ok |-> TRUE, vertices |-> vertices]
  ELSE LET offset == 84 + (i * 50) + 12
           v0 == ReadVertex(buf, offset)
           v1 == ReadVertex(buf, offset + 12)
           v2 == ReadVertex(buf, offset + 24)
       IN IF ~(v0.ok /\ v1.ok /\ v2.ok)
          THEN [ok |-> TRUE, vertices |-> vertices]
          ELSE BinaryVerticesPartial(buf, faceCount, i + 1,
                                     vertices \o <<v0.v, v1.v, v2.v>>)

\* the loop over the declared records, from record i on: [ok, vertices];
\* ok = FALSE is the RangeError of the first read outside the buffer
RECURSIVE BinaryVertices(_, _, _, _)
BinaryVertices(buf, faceCount, i, vertices) ==
  IF i >= faceCount THEN [ok |-> TRUE, vertices |-> vertices]
  ELSE LET offset == 84 + (i * 50) + 12
           v0 == ReadVertex(buf, offset)
           v1 == ReadVertex(buf, offset + 12)
           v2 == ReadVertex(buf, offset + 24)
       IN IF ~(v0.ok /\ v1.ok /\ v2.ok)
          THEN [ok |-> FALSE, vertices |-> <<>>]
          ELSE BinaryVertices(buf, faceCount, i + 1,
                              vertices \o <<v0.v, v1.v, v2.v>>)

\* parseBinarySTL: [threw, info]; info has no meaning when threw
parseBinarySTL(buf) ==
  LET count == readUInt32LE(buf, 80)
      faceCount == count.v
      vertexCount == faceCount * 3
      read == BinaryVertices(buf, faceCount, 0, <<>>)
      boundingBox == calculateBoundingBox(read.vertices)
  IN IF ~count.ok \/ ~read.ok
     THEN [threw |-> TRUE, info |-> <<>>]
     ELSE [threw |-> FALSE,
           info |-> [vertexCount |-> Int2Num(vertexCount),
                     faceCount |-> Int2Num(faceCount),
                     boundingBox |-> boundingBox,
                     surfaceArea |-> estimateSurfaceArea(Int2Num(faceCount)),
                     volume |-> estimateVolume(boundingBox)]]

\* analyzeSTL on the bytes of the stored file: [threw, sniff, info]
analyzeSTL(buf) ==
  IF isAsciiSTL_server(buf)
  THEN [threw |-> FALSE, sniff |-> "textual", info |-> parseAsciiSTL(buf)]
  ELSE LET r == parseBinarySTL(buf)
       IN [threw |-> r.threw, sniff |-> "binary", info |-> r.info]

(***************************************************************************)
(* server/routes.ts: the multer upload of POST /api/models/upload followed *)
(* by the handler's call of analyzeSTL.                                    *)
(***************************************************************************)
\* limits.fileSize: 100 * 1024 * 1024
ServerMaxSize == 104857600

\* path.extname of a name without path separators: from the last dot on,
\* empty when there is no dot, when the only dot leads the name, or for ".."
Extname(name) ==
  LET dots == {i \in 1..Len(name) : name[i] = 46}
      d == CHOOSE i \in dots : \A j \in dots : j <= i
  IN IF dots = {} THEN <<>>
     ELSE IF d = 1 \/ name = <<46, 46>> THEN <<>>
     ELSE SubSeq(name, d, Len(name))

\* fileFilter of the upload
fileFilter(f) == ToLowerCase(Extname(f.name)) = DOTSTL

\* limits of the upload: a file above fileSize bytes is refused
WithinLimits(f) == BufLen(f.buf) <= ServerMaxSize

\* the upload and the analysis of one file: [status, sniff, ...] with status
\* "refused" (the upload middleware failed the request), "threw" (analyzeSTL
\* threw) or "returned" (analyzeSTL returned info)
UploadAndAnalyze(f) ==
  IF ~fileFilter(f)
  THEN [status |-> "refused", sniff |-> "none",
        message |-> "Only STL files are allowed"]
  ELSE IF ~WithinLimits(f)
  THEN [status |-> "refused", sniff |-> "none", message |-> "File too large"]
  ELSE LET a == analyzeSTL(f.buf)
       IN IF a.threw
          THEN [status |-> "threw", sniff |-> a.sniff,
                message |-> "Failed to analyze STL file"]
          ELSE [status |-> "returned", sniff |-> a.sniff, info |-> a.info]

(***************************************************************************)
(* The binary layout, written: what a producer of STL files emits.         *)
(***************************************************************************)
RECURSIVE FloorLog2(_)
FloorLog2(n) == IF n <= 1 THEN 0 ELSE 1 + FloorLog2(n \div 2)

\* four little-endian bytes of an unsigned 32-bit integer
WriteUInt32LE(n) ==
  <<n % 256, (n \div 256) % 256, (n \div 65536) % 256, n \div 16777216>>

\* four little-endian bytes of the binary32 encoding of a number that is a
\* NaN, an infinity, zero, or n/2^k with |n| < 2^24
WriteFloatLE(a) ==
  LET mag == Abs(a.n)
      e2 == FloorLog2(mag)
      e == 127 + e2 - FloorLog2(a.d)
      m == mag * Pow2(23 - e2) - 8388608
      s == IF a.n < 0 THEN 128 ELSE 0
  IN CASE a.k = "nan" -> <<0, 0, 192, 127>>
       [] a.k = "inf" -> <<0, 0, 128, s + 127>>
       [] a.n = 0 -> <<0, 0, 0, 0>>
       [] OTHER -> <<m % 256, (m \div 256) % 256,
                     (e % 2) * 128 + (m \div 65536), s + (e \div 2)>>

WriteVertex(v) == WriteFloatLE(v[1]) \o WriteFloatLE(v[2]) \o WriteFloatLE(v[3])

\* the normal vector and the attribute bytes written with every record
RecordNormal == <<Int2Num(7), Int2Num(7), Int2Num(7)>>
RecordAttribute == <<1, 1>>

\* one 50-byte record of a triangle <<v1, v2, v3>>
WriteRecord(tri) ==
  WriteVertex(RecordNormal) \o WriteVertex(tri[1]) \o WriteVertex(tri[2])
    \o WriteVertex(tri[3]) \o RecordAttribute

RECURSIVE WriteRecords(_)
WriteRecords(tris) ==
  IF tris = <<>> THEN <<>> ELSE WriteRecord(Head(tris)) \o WriteRecords(Tail(tris))

\* header, count, records
EncodeBinary(header, declared, tris) ==
  header \o WriteUInt32LE(declared) \o WriteRecords(tris)

(***************************************************************************)
(* The files of the model.                                                 *)
(***************************************************************************)
SeqsUpTo(pool, n) == UNION {[1..k -> pool] : k \in 0..n}

\* "a.stl", "A.STL", ".stl", "a.txt", "astl"
Names ==
  {<<97, 46, 115, 116, 108>>, <<65, 46, 83, 84, 76>>, DOTSTL,
   <<97, 46, 116, 120, 116>>, <<97, 115, 116, 108>>}

V(x, y, z) == <<x, y, z>>
I(n) == Int2Num(n)

\* the two facets of the two-facet scenario, a facet with negative and
\* fractional coordinates, a facet with a NaN and an infinite coordinate
Tri1 == <<V(I(0), I(0), I(0)), V(I(1), I(0), I(0)), V(I(0), I(1), I(0))>>
Tri2 == <<V(I(0), I(0), I(1)), V(I(1), I(0), I(1)), V(I(0), I(1), I(1))>>
Tri3 == <<V(I(-1), Fin(1, 2), I(2)), V(I(3), I(-2), I(0)), V(I(0), I(0), I(0))>>
Tri4 == <<V(NaN, I(0), I(0)), V(I(1), I(0), I(0)), V(I(0), I(1), PosInf)>>
TriPool == {Tri1, Tri2, Tri3, Tri4}

PadTo(bytes, n) == bytes \o Zeros(n - Len(bytes))

\* 80-byte headers: zeros, "solid a", " solid", "solidw"
HeaderZeros == Zeros(80)
HeaderSolid == PadTo(SOLID \o <<32, 97>>, 80)
HeaderBlankSolid == PadTo(<<32>> \o SOLID, 80)
HeaderSolidw == PadTo(SOLID \o <<119>>, 80)
HeaderPool == {HeaderZeros, HeaderSolid, HeaderBlankSolid, HeaderSolidw}

\* a declared count far above any record count of the model
BigCount == 1 + (255 * 256) + (255 * 65536) + 16777216

DropLast(bytes, n) == SubSeq(bytes, 1, Len(bytes) - n)

\* binary files: the encoding of a list of triangles, its last `cut` bytes
\* missing, the declared count that of the list or above it
BinaryInputs ==
  {[recipe |-> [kind |-> "binary", header |-> h, tris |-> ts,
                declared |-> n, cut |-> c],
    buf |-> [data |-> DropLast(EncodeBinary(h, n, ts), c), tail |-> 0]] :
     <<h, ts, n, c>> \in
       {q \in HeaderPool \X SeqsUpTo(TriPool, MaxTris)
                \X {0, 1, 2, 3, BigCount} \X (0..3) :
          \/ q[3] = Len(q[2])
          \/ /\ q[1] = HeaderZeros
             /\ q[4] = 0
             /\ q[3] \in {Len(q[2]) + 1, BigCount}}}

\* lines of a textual file: "vertex 0 0 0", " vertex 1.5 2 -1",
\* "vertex x 1 1", "vertex 2x 1 1", "vertex 1 2", "endsolid a"
LinePool ==
  {VERTEX \o <<32, 48, 32, 48, 32, 48>>,
   <<32>> \o VERTEX \o <<32, 49, 46, 53, 32, 50, 32, 45, 49>>,
   VERTEX \o <<32, 120, 32, 49, 32, 49>>,
   VERTEX \o <<32, 50, 120, 32, 49, 32, 49>>,
   VERTEX \o <<32, 49, 32, 50>>,
   <<101, 110, 100>> \o SOLID \o <<32, 97>>}

\* first lines of a textual file: "solid a", "solid", "Solid a"
HeadPool == {SOLID \o <<32, 97>>, SOLID, <<83, 111, 108, 105, 100, 32, 97>>}

RECURSIVE JoinLines(_)
JoinLines(lines) ==
  IF lines = <<>> THEN <<>> ELSE Head(lines) \o <<10>> \o JoinLines(Tail(lines))

TextInputs ==
  {[recipe |-> [kind |-> "text", head |-> h, lines |-> ls],
    buf |-> [data |-> JoinLines(<<h>> \o ls), tail |-> 0]] :
     <<h, ls>> \in HeadPool \X SeqsUpTo(LinePool, MaxLines)}

\* short buffers: empty, "solid", five zeros, "solid ", six zeros
RawInputs ==
  {[recipe |-> [kind |-> "raw"], buf |-> [data |-> d, tail |-> 0]] :
     d \in {<<>>, SOLID, Zeros(5), SOLID \o <<32>>, Zeros(6)}}

\* files at the size ceiling and one byte above it: an empty binary file, a
\* binary file of one facet and a textual file, each followed by zero bytes
LargeInputs ==
  {[recipe |-> [kind |-> "large", size |-> n],
    buf |-> [data |-> d, tail |-> n - Len(d)]] :
     <<d, n>> \in
       {EncodeBinary(HeaderZeros, 0, <<>>), EncodeBinary(HeaderZeros, 1, <<Tri1>>),
        JoinLines(<<SOLID \o <<32, 97>>, VERTEX \o <<32, 48, 32, 48, 32, 48>>>>)}
         \X {ClientMaxSize, ClientMaxSize + 1}}

Inputs == BinaryInputs \cup TextInputs \cup RawInputs \cup LargeInputs

(***************************************************************************)
(* The rest of the application before anything is asked of it.             *)
(***************************************************************************)
\* no call of uploadSTLFile has been made
UploadIdle == [pc |-> "idle"]

\* { ...a, ...b }: the properties of a with those of b written over them
Spread(a, b) ==
  [k \in DOMAIN a \cup DOMAIN b |-> IF k \in DOMAIN b THEN b[k] ELSE a[k]]

\* the maps of MemStorage
Entities ==
  {"users", "projects", "models", "simulationSettings", "analysisOptions",
   "aiOptimizationOptions", "simulationResults", "aiRecommendations"}

\* the counter of each map
CounterOf ==
  [users |-> "currentUserId", projects |-> "currentProjectId",
   models |-> "currentModelId",
   simulationSettings |-> "currentSimulationSettingsId",
   analysisOptions |-> "currentAnalysisOptionsId",
   aiOptimizationOptions |-> "currentAiOptimizationOptionsId",
   simulationResults |-> "currentSimulationResultsId",
   aiRecommendations |-> "currentAiRecommendationsId"]

\* what the create methods add to the record besides its id: the
\* timestamps of createProject and createSimulationResults, all taken at
\* one instant
StampOf ==
  [e \in Entities |->
     IF e = "projects" THEN [createdAt |-> "now", updatedAt |-> "now"]
     ELSE IF e = "simulationResults" THEN [completedAt |-> "now"]
     ELSE <<>>]

\* createUser, createProject, createModel, createSimulationSettings,
\* createAnalysisOptions, createAiOptimizationOptions,
\* createSimulationResults, createAiRecommendation: const id =
\* this.current...Id++; the record is { ...insert, id } with its timestamps;
\* this.<map>.set(id, record); return record
Create(st, e, insert) ==
  LET id == st[CounterOf[e]]
      record == Spread(Spread(insert, [id |-> id]), StampOf[e])
  IN [store |-> [st EXCEPT ![CounterOf[e]] = id + 1,
                           ![e] = (id :> record) @@ @],
      value |-> record]

\* undefined, null
Undefined == [kind |-> "undefined"]
Null == [kind |-> "null"]

\* getUser, getProject, getModel, getSimulationSettings, getAnalysisOptions,
\* getAiOptimizationOptions, getSimulationResult, getAiRecommendation:
\* this.<map>.get(id)
Get(st, e, id) == IF id \in DOMAIN st[e] THEN st[e][id] ELSE Undefined

\* getSimulationSettingsByProject, getAnalysisOptionsByProject,
\* getAiOptimizationOptionsByProject: the first record of the map, in the
\* order of insertion, with that projectId
FindByProject(st, e, projectId) ==
  LET ids == {id \in DOMAIN st[e] : st[e][id].projectId = projectId}
  IN IF ids = {} THEN Undefined
     ELSE st[e][CHOOSE id \in ids : \A other \in ids : id <= other]

\* updateAiRecommendation creating the recommendation it does not find
updateAiRecommendationUpsert(st, id, data) ==
  LET recommendation == IF id \in DOMAIN st.aiRecommendations
                        THEN st.aiRecommendations[id] ELSE [id |-> id]
      updatedRecommendation == Spread(recommendation, data)
  IN [threw |-> FALSE,
      store |-> [st EXCEPT !.aiRecommendations = (id :> updatedRecommendation) @@ @],
      value |-> updatedRecommendation]

\* updateAiRecommendation: throws when the map has no such id, else sets
\* { ...recommendation, ...data } under the id
updateAiRecommendation(st, id, data) ==
  IF id \notin DOMAIN st.aiRecommendations
  THEN [threw |-> TRUE, message |-> "Recommendation not found", store |-> st]
  ELSE LET updatedRecommendation == Spread(st.aiRecommendations[id], data)
       IN [threw |-> FALSE,
           store |-> [st EXCEPT !.aiRecommendations = (id :> updatedRecommendation) @@ @],
           value |-> updatedRecommendation]

\* the fields of an instance before the constructor creates the sample
\* project
MemStorageEmpty ==
  [users |-> <<>>, projects |-> <<>>, models |-> <<>>,
   simulationSettings |-> <<>>, analysisOptions |-> <<>>,
   aiOptimizationOptions |-> <<>>, simulationResults |-> <<>>,
   aiRecommendations |-> <<>>,
   currentUserId |-> 1, currentProjectId |-> 1, currentModelId |-> 1,
   currentSimulationSettingsId |-> 1, currentAnalysisOptionsId |-> 1,
   currentAiOptimizationOptionsId |-> 1, currentSimulationResultsId |-> 1,
   currentAiRecommendationsId |-> 1]

\* new MemStorage(): empty maps, counters at 1, and the sample project
\* created by the constructor
MemStorageNew ==
  Create(MemStorageEmpty, "projects",
         [name |-> "Rocket Prototype v2.3",
          description |-> "Experimental rocket design with improved aerodynamics",
          userId |-> Null, status |-> "draft"]).store

\* most requests the server handles at a time
MaxInFlight == 2

\* no request is being handled
NoRequests == [slot \in 1..MaxInFlight |-> [pc |-> "free"]]

AppAtRest ==
  /\ calls = <<>>
  /\ up = UploadIdle
  /\ store = MemStorageNew
  /\ reqs = NoRequests

(***************************************************************************)
(* The state machine: a file is picked, the client validates it and the    *)
(* server receives and analyses it, in either order.                       *)
(***************************************************************************)
Init ==
  /\ \E inp \in Inputs, name \in Names :
       /\ recipe = inp.recipe
       /\ file = [name |-> name, buf |-> inp.buf]
  /\ cres = [status |-> "none"]
  /\ sres = [status |-> "none"]
  /\ cstate = "Received"
  /\ sstate = "Received"
  /\ cread = FALSE
  /\ facts = <<>>
  /\ AppAtRest

\* the client calls validateSTLFile(file)
Validate ==
  /\ cres.status = "none"
  /\ cres' = validateSTLFile(file)
  /\ cstate' = IF cres'.value.isValid THEN "Accepted" ELSE "Rejected"
  /\ cread' = (cres'.sniff # "none")
  /\ UNCHANGED <<recipe, file, sres, sstate, facts, appVars>>

\* the server handles POST /api/models/upload for the file
Upload ==
  /\ sres.status = "none"
  /\ sres' = UploadAndAnalyze(file)
  /\ sstate' = IF sres'.status = "returned" THEN "Accepted" ELSE "Rejected"
  /\ UNCHANGED <<recipe, file, cres, cstate, cread, facts, appVars>>

Next == Validate \/ Upload

Spec == Init /\ [][Next]_vars

(***************************************************************************)
(* The same two runs, statement by statement: where each run stands and    *)
(* what it has decided.                                                    *)
(***************************************************************************)
\* what the expressions of validateSTLFile, of the upload and of analyzeSTL
\* evaluate to on a file
Facts(f) ==
  [endsWith |-> EndsWith(ToLowerCase(f.name), DOTSTL),
   tooLarge |-> TooLarge(f),
   isAscii |-> isAsciiSTL_client(f.buf),
   getUint32 |-> getUint32(f.buf, 80),
   checked |-> ValidateBody(f).value,
   fileFilter |-> fileFilter(f),
   withinLimits |-> WithinLimits(f),
   isAsciiServer |-> isAsciiSTL_server(f.buf),
   parsed |-> analyzeSTL(f.buf)]

Resolved(sniff, value) == [status |-> "resolved", sniff |-> sniff, value |-> value]

\* validateSTLFile: the extension check fails
CRejectExtension ==
  /\ cstate = "Received"
  /\ ~facts.endsWith
  /\ cstate' = "Rejected"
  /\ cres' = Resolved("none", Invalid("File must have .stl extension"))
  /\ UNCHANGED <<recipe, file, sres, sstate, cread, facts, appVars>>

\* the size check made whatever the extension check found
CRejectSizeFirst ==
  /\ cstate = "Received"
  /\ facts.tooLarge
  /\ cstate' = "Rejected"
  /\ cres' = Resolved("none", Invalid("File is too large (max 100MB)"))
  /\ UNCHANGED <<recipe, file, sres, sstate, cread, facts, appVars>>

\* validateSTLFile: the size check fails
CRejectSize ==
  /\ cstate = "Received"
  /\ facts.endsWith
  /\ facts.tooLarge
  /\ cstate' = "Rejected"
  /\ cres' = Resolved("none", Invalid("File is too large (max 100MB)"))
  /\ UNCHANGED <<recipe, file, sres, sstate, cread, facts, appVars>>

\* validateSTLFile: file.arrayBuffer() and isAsciiSTL; an exception of
\* isAsciiSTL is answered by the catch block
CSniff ==
  /\ cstate = "Received"
  /\ facts.endsWith
  /\ ~facts.tooLarge
  /\ cread' = TRUE
  /\ IF facts.isAscii.ok
     THEN /\ cstate' = "Sniffed"
          /\ cres' = [status |-> "none",
                      sniff |-> IF facts.isAscii.v THEN "textual" ELSE "binary"]
     ELSE /\ cstate' = "Rejected"
          /\ cres' = Resolved("threw", Invalid(FailedToParse("sniff")))
  /\ UNCHANGED <<recipe, file, sres, sstate, facts, appVars>>

\* validateSTLFile: the text is decoded and matched, or the count is read;
\* an exception of getUint32 is answered by the catch block
CParse ==
  /\ cstate = "Sniffed"
  /\ IF cres.sniff = "binary" /\ ~facts.getUint32.ok
     THEN /\ cstate' = "Rejected"
          /\ cres' = Resolved("binary", Invalid(FailedToParse("count")))
     ELSE /\ cstate' = "Parsed"
          /\ cres' = cres
  /\ UNCHANGED <<recipe, file, sres, sstate, cread, facts, appVars>>

\* validateSTLFile: if (!solidMatch), if (file.size < expectedSize)
CCheck ==
  /\ cstate = "Parsed"
  /\ cstate' = "Validated"
  /\ cres' = [status |-> "none", sniff |-> cres.sniff, value |-> facts.checked]
  /\ UNCHANGED <<recipe, file, sres, sstate, cread, facts, appVars>>

\* CReturn starting over after a rejection instead of returning it
CReturnRetry ==
  /\ cstate = "Validated"
  /\ cstate' = IF cres.value.isValid THEN "Accepted" ELSE "Received"
  /\ cres' = IF cres.value.isValid THEN Resolved(cres.sniff, cres.value)
             ELSE [status |-> "none"]
  /\ UNCHANGED <<recipe, file, sres, sstate, cread, facts, appVars>>

\* validateSTLFile: the return of the structural check
CReturn ==
  /\ cstate = "Validated"
  /\ cstate' = IF cres.value.isValid THEN "Accepted" ELSE "Rejected"
  /\ cres' = Resolved(cres.sniff, cres.value)
  /\ UNCHANGED <<recipe, file, sres, sstate, cread, facts, appVars>>

\* the upload: fileFilter or limits refuse the file
SRefuse ==
  /\ sstate = "Received"
  /\ ~facts.fileFilter \/ ~facts.withinLimits
  /\ sstate' = "Rejected"
  /\ sres' = [status |-> "refused", sniff |-> "none",
              message |-> IF ~facts.fileFilter THEN "Only STL files are allowed"
                          ELSE "File too large"]
  /\ UNCHANGED <<recipe, file, cres, cstate, cread, facts, appVars>>

\* analyzeSTL: readFile and isAsciiSTL
SSniff ==
  /\ sstate = "Received"
  /\ facts.fileFilter
  /\ facts.withinLimits
  /\ sstate' = "Sniffed"
  /\ sres' = [status |-> "none",
              sniff |-> IF facts.isAsciiServer THEN "textual" ELSE "binary"]
  /\ UNCHANGED <<recipe, file, cres, cstate, cread, facts, appVars>>

\* analyzeSTL: parseAsciiSTL or parseBinarySTL; an exception is rethrown by
\* the catch block
SParse ==
  /\ sstate = "Sniffed"
  /\ IF facts.parsed.threw
     THEN /\ sstate' = "Rejected"
          /\ sres' = [status |-> "threw", sniff |-> sres.sniff,
                      message |-> "Failed to analyze STL file"]
     ELSE /\ sstate' = "Parsed"
          /\ sres' = [status |-> "none", sniff |-> sres.sniff,
                      info |-> facts.parsed.info]
  /\ UNCHANGED <<recipe, file, cres, cstate, cread, facts, appVars>>

\* analyzeSTL: the return of the parsed info
SReturn ==
  /\ sstate = "Parsed"
  /\ sstate' = "Accepted"
  /\ sres' = [status |-> "returned", sniff |-> sres.sniff, info |-> sres.info]
  /\ UNCHANGED <<recipe, file, cres, cstate, cread, facts, appVars>>

ClientStep == CRejectExtension \/ CRejectSize \/ CSniff \/ CParse \/ CCheck \/ CReturn

ServerStep == SRefuse \/ SSniff \/ SParse \/ SReturn

NextSteps == ClientStep \/ ServerStep

\* the files followed statement by statement: those of at most one facet
\* or one line after the first
StepInputs ==
  {inp \in Inputs :
     /\ inp.recipe.kind = "binary" => Len(inp.recipe.tris) <= 1
     /\ inp.recipe.kind = "text" => Len(inp.recipe.lines) <= 1}

InitSteps ==
  /\ \E inp \in StepInputs, name \in Names :
       /\ recipe = inp.recipe
       /\ file = [name |-> name, buf |-> inp.buf]
  /\ cres = [status |-> "none"]
  /\ sres = [status |-> "none"]
  /\ cstate = "Received"
  /\ sstate = "Received"
  /\ cread = FALSE
  /\ facts = Facts(file)
  /\ AppAtRest

\* a call runs to its end: the code has no suspension it does not resume
SpecSteps ==
  InitSteps /\ [][NextSteps]_vars /\ WF_vars(ClientStep) /\ WF_vars(ServerStep)

(***************************************************************************)
(* What the claims speak of.                                               *)
(***************************************************************************)
ClientDone == cres.status # "none"
ServerDone == sres.status # "none"

\* validateSTLFile answered isValid = true
ClientAccepts == cres.status = "resolved" /\ cres.value.isValid

\* the upload passed and analyzeSTL returned
ServerAccepts == sres.status = "returned"

\* analyzeSTL ran on the file (the upload passed)
Analysed == sres.status \in {"threw", "returned"}

FileLen == BufLen(file.buf)

\* the count a binary file of at least 84 bytes declares
DeclaredCount == UInt32LE(file.buf, 80)

\* the classification of section 4.1: the first six bytes, decoded, trimmed
\* and lower-cased, are "solid"
Classification(buf) ==
  IF ToLowerCase(Trim(Utf8Decode(Slice(buf, 0, Min(6, BufLen(buf)))))) = SOLID
  THEN "textual" ELSE "binary"

MeshInfoFields == {"vertexCount", "faceCount", "boundingBox", "surfaceArea", "volume"}

CorruptMessage == "Binary STL file is corrupted or incomplete"
TooLargeMessage == "File is too large (max 100MB)"

(***************************************************************************)
(* C1: the client's validation and the server's upload and analysis reach  *)
(* the same decision on every file: isValid = true exactly when the server *)
(* accepts the file and analyzeSTL returns.                                *)
(***************************************************************************)
C1_SameDecision ==
  (ClientDone /\ ServerDone) => (ClientAccepts <=> ServerAccepts)

(***************************************************************************)
(* C2: a binary buffer declaring N facets and shorter than 84 + N*50 bytes *)
(* makes analyzeSTL fail; none returns a MeshInfo, the buffers missing     *)
(* only one or two attribute bytes of the last record included.            *)
(***************************************************************************)
C2_TruncatedFails ==
  (/\ Analysed
   /\ sres.sniff = "binary"
   /\ FileLen >= 84
   /\ FileLen < 84 + (DeclaredCount * 50))
    => sres.status = "threw"

(***************************************************************************)
(* C3: every MeshInfo analyzeSTL returns and every result validateSTLFile  *)
(* returns has vertexCount = 3 * faceCount, faceCount an integer >= 0.     *)
(***************************************************************************)
CountsAgree(r) ==
  /\ r.vertexCount = NumMul(Int2Num(3), r.faceCount)
  /\ IsInteger(r.faceCount)
  /\ r.faceCount.n >= 0

C3_CountsInvariant ==
  /\ ServerAccepts => CountsAgree(sres.info)
  /\ (ClientDone /\ cres.status = "resolved") => CountsAgree(cres.value)

(***************************************************************************)
(* C4, as claimed: every returned bounding box has min[k] <= max[k] on     *)
(* each axis, and is the zero box when the input has no facet.             *)
(***************************************************************************)
C4_MinLeMax ==
  ServerAccepts =>
    /\ \A k \in 1..3 :
         NumLe(sres.info.boundingBox.min[k], sres.info.boundingBox.max[k])
    /\ sres.info.faceCount = Int2Num(0) => sres.info.boundingBox = ZeroBox

(***************************************************************************)
(* C4, amended: on each axis either min[k] <= max[k] or min[k] and max[k]  *)
(* are both NaN; with no facet the box is the zero box.                    *)
(***************************************************************************)
C4_MinLeMaxOrNaN ==
  ServerAccepts =>
    /\ \A k \in 1..3 :
         \/ NumLe(sres.info.boundingBox.min[k], sres.info.boundingBox.max[k])
         \/ /\ IsNaN(sres.info.boundingBox.min[k])
            /\ IsNaN(sres.info.boundingBox.max[k])
    /\ sres.info.faceCount = Int2Num(0) => sres.info.boundingBox = ZeroBox

\* a returned box that is NaN on the x axis and has min < max on the y axis
C4_Witness ==
  /\ ServerAccepts
  /\ IsNaN(sres.info.boundingBox.min[1])
  /\ NumLt(sres.info.boundingBox.min[2], sres.info.boundingBox.max[2])

(***************************************************************************)
(* C5: the round trip.  A list of N triangles with known coordinates,      *)
(* written whole into the binary layout with count N, is analysed to       *)
(* faceCount N, vertexCount 3N and, for N >= 1, the box of the             *)
(* componentwise least and greatest coordinates.                           *)
(***************************************************************************)
\* the coordinates on axis k of a list of triangles
AxisValues(tris, k) ==
  {tris[i][j][k] : i \in 1..Len(tris), j \in 1..3}

LeastOf(S) == CHOOSE x \in S : \A y \in S : NumLe(x, y)
GreatestOf(S) == CHOOSE x \in S : \A y \in S : NumLe(y, x)

ExpectedBox(tris) ==
  [min |-> [k \in 1..3 |-> LeastOf(AxisValues(tris, k))],
   max |-> [k \in 1..3 |-> GreatestOf(AxisValues(tris, k))]]

\* the file is the whole encoding of its recipe's triangles, none of their
\* coordinates NaN, and analyzeSTL ran on it
RoundTripCase ==
  /\ recipe.kind = "binary"
  /\ recipe.cut = 0
  /\ recipe.declared = Len(recipe.tris)
  /\ \A k \in 1..3 : \A x \in AxisValues(recipe.tris, k) : ~IsNaN(x)
  /\ Analysed

RoundTripHolds ==
  /\ sres.status = "returned"
  /\ sres.info.faceCount = Int2Num(Len(recipe.tris))
  /\ sres.info.vertexCount = Int2Num(3 * Len(recipe.tris))
  /\ Len(recipe.tris) >= 1 => sres.info.boundingBox = ExpectedBox(recipe.tris)

\* C5, as claimed: for every header that does not start with "solid"
C5_RoundTripNotSolid ==
  (RoundTripCase /\ ~StartsWith(recipe.header, SOLID)) => RoundTripHolds

\* C5, amended: for every header whose first six bytes, trimmed and
\* lower-cased, are not "solid"
C5_RoundTrip ==
  (RoundTripCase
     /\ ToLowerCase(Trim(Utf8Decode(SubSeq(recipe.header, 1, 6)))) # SOLID)
    => RoundTripHolds

\* two triangles under a header that starts with "solidw", analysed
C5_Witness ==
  /\ RoundTripCase
  /\ recipe.header = HeaderSolidw
  /\ recipe.tris = <<Tri3, Tri2>>
  /\ sres.status = "returned"
  /\ sres.info.boundingBox.min[1] = Int2Num(-1)

(***************************************************************************)
(* C6: validateSTLFile never raises.  For every file it resolves to a      *)
(* result; isValid = false comes with an errorMessage and zero counts,     *)
(* isValid = true with no errorMessage.                                    *)
(***************************************************************************)
C6_ValidateNeverRaises ==
  ClientDone =>
    /\ cres.status = "resolved"
    /\ ~cres.value.isValid =>
         /\ "errorMessage" \in DOMAIN cres.value
         /\ cres.value.faceCount = Int2Num(0)
         /\ cres.value.vertexCount = Int2Num(0)
    /\ cres.value.isValid => "errorMessage" \notin DOMAIN cres.value

\* a buffer shorter than 84 bytes, sniffed binary: the read of the count
\* threw and the catch block answered
C6_Witness ==
  /\ ClientDone
  /\ FileLen < 84
  /\ cres.sniff = "binary"
  /\ cres.status = "resolved"
  /\ ~cres.value.isValid
  /\ cres.value.errorMessage = FailedToParse("count")

(***************************************************************************)
(* C7: analyzeSTL is all-or-nothing.  What it returns has the five fields, *)
(* and for a binary buffer they are computed from every declared record:   *)
(* all 3N vertices lie inside the buffer and the box is theirs.            *)
(***************************************************************************)
\* the value of the binary32 at an offset inside the buffer
FloatAt(buf, off) ==
  Float32Value(ByteAt(buf, off), ByteAt(buf, off + 1), ByteAt(buf, off + 2),
               ByteAt(buf, off + 3))

\* vertex j of record i, as the layout of section 4.3 places it
VertexAt(buf, i, j) ==
  LET off == 84 + (i * 50) + 12 + (j * 12)
  IN <<FloatAt(buf, off), FloatAt(buf, off + 4), FloatAt(buf, off + 8)>>

DeclaredVertices(buf, n) ==
  [q \in 1..(3 * n) |-> VertexAt(buf, (q - 1) \div 3, (q - 1) % 3)]

\* the lines of the buffer that begin, trimmed, with "vertex"
VertexLineCount(buf) ==
  LET lines == SplitLines(BufferToString(buf))
  IN Cardinality({i \in 1..Len(lines) : StrStartsWith(StrTrim(lines[i]), VERTEX)})

C7_AllOrNothing ==
  ServerAccepts =>
    /\ DOMAIN sres.info = MeshInfoFields
    /\ sres.info.surfaceArea = NumMul(sres.info.faceCount, Fin(1, 100))
    /\ sres.info.volume = estimateVolume(sres.info.boundingBox)
    /\ sres.sniff = "binary" =>
         /\ FileLen >= 84
         /\ DeclaredCount = 0 \/ 84 + ((DeclaredCount - 1) * 50) + 48 <= FileLen
         /\ sres.info.faceCount = Int2Num(DeclaredCount)
         /\ sres.info.vertexCount = Int2Num(3 * DeclaredCount)
         /\ sres.info.boundingBox =
              calculateBoundingBox(DeclaredVertices(file.buf, DeclaredCount))
    /\ sres.sniff = "textual" =>
         sres.info.vertexCount = Int2Num(VertexLineCount(file.buf))

\* a binary file of two records, the last one short of its attribute bytes,
\* analysed
C7_Witness ==
  /\ ServerAccepts
  /\ sres.sniff = "binary"
  /\ DeclaredCount = 2
  /\ FileLen = 182

(***************************************************************************)
(* C8: the sniffer is total.  On every buffer, shorter than six bytes or   *)
(* not, the client's and the server's isAsciiSTL both answer, and answer   *)
(* the classification of the first six bytes.                              *)
(***************************************************************************)
C8_SnifferTotalAndSame ==
  /\ (ClientDone /\ cres.sniff # "none") => cres.sniff = Classification(file.buf)
  /\ (ServerDone /\ sres.sniff # "none") => sres.sniff = Classification(file.buf)

(***************************************************************************)
(* C9: the size ceiling.  validateSTLFile rejects every file above         *)
(* 104,857,600 bytes and does not reject a file of exactly that size for   *)
(* its size; the upload refuses above the same ceiling and not at it.      *)
(***************************************************************************)
C9_SizeCeiling ==
  /\ (ClientDone /\ FileLen > 104857600) => ~ClientAccepts
  /\ (ClientDone /\ FileLen = 104857600) =>
       (cres.value.isValid \/ cres.value.errorMessage # TooLargeMessage)
  /\ (ServerDone /\ FileLen > 104857600) => sres.status = "refused"
  /\ (ServerDone /\ FileLen = 104857600 /\ sres.status = "refused") =>
       sres.message # "File too large"

\* a well-formed binary file of exactly 104,857,600 bytes, accepted by both
C9_Witness ==
  /\ FileLen = 104857600
  /\ ClientAccepts
  /\ ServerAccepts
  /\ sres.sniff = "binary"
  /\ sres.info.faceCount = Int2Num(1)

(***************************************************************************)
(* C10: the binary gate of validateSTLFile.  A buffer sniffed binary is    *)
(* rejected as corrupted or incomplete exactly when 84 + faceCount*50      *)
(* exceeds its length, and is otherwise accepted with the declared count   *)
(* and three times it.                                                     *)
(***************************************************************************)
\* 84 + faceCount*50 exceeds the length; a buffer too short to declare a
\* count is shorter than 84 bytes already
ExceedsLength == FileLen < 84 \/ 84 + (DeclaredCount * 50) > FileLen

BinaryGateAnswer ==
  IF ExceedsLength
  THEN /\ ~cres.value.isValid
       /\ cres.value.errorMessage = CorruptMessage
  ELSE /\ cres.value.isValid
       /\ cres.value.faceCount = Int2Num(DeclaredCount)
       /\ cres.value.vertexCount = Int2Num(3 * DeclaredCount)

\* C10, as claimed: for every buffer sniffed binary
C10_BinaryGate ==
  (ClientDone /\ cres.sniff = "binary") => BinaryGateAnswer

\* C10, amended: for every buffer sniffed binary of at least 84 bytes; a
\* shorter one is rejected with the message of the catch block
C10_BinaryGateFrom84 ==
  (ClientDone /\ cres.sniff = "binary") =>
    IF FileLen >= 84 THEN BinaryGateAnswer
    ELSE /\ ~cres.value.isValid
         /\ cres.value.errorMessage = FailedToParse("count")

\* a binary file of one record, one byte short, rejected as corrupted
C10_Witness ==
  /\ ClientDone
  /\ cres.sniff = "binary"
  /\ FileLen = 133
  /\ DeclaredCount = 1
  /\ cres.value.errorMessage = CorruptMessage

(***************************************************************************)
(* C11: the textual gate of validateSTLFile.  A buffer sniffed textual is  *)
(* accepted exactly when its first line matches the pattern solid <name>;  *)
(* nothing after the first line changes the decision.                      *)
(***************************************************************************)
\* the first line of the buffer: its bytes before the first line feed
FirstLine(buf) ==
  LET feeds == {i \in 1..Len(buf.data) : buf.data[i] = 10}
      first == CHOOSE i \in feeds : \A j \in feeds : i <= j
  IN IF feeds = {} THEN buf.data ELSE SubSeq(buf.data, 1, first - 1)

\* the first line holds "solid", white space, and a name (empty or not)
HeaderLineMatches(buf) ==
  \E i \in 1..Len(FirstLine(buf)) :
    /\ i + 5 <= Len(FirstLine(buf))
    /\ SubSeq(FirstLine(buf), i, i + 4) = SOLID
    /\ IsWhiteSpace(FirstLine(buf)[i + 5])

C11_HeaderLineDecides ==
  (ClientDone /\ cres.sniff = "textual") =>
    (cres.value.isValid <=> HeaderLineMatches(file.buf))

\* the first line "Solid a" does not match, a later line "endsolid a" does,
\* and the file is accepted
C11_LaterLineAccepted ==
  ~(/\ ClientDone
    /\ cres.sniff = "textual"
    /\ FirstLine(file.buf) = <<83, 111, 108, 105, 100, 32, 97>>
    /\ cres.value.isValid)

(***************************************************************************)
(* C12: the extension check.  A file name passes exactly when, lower-cased,*)
(* it ends in ".stl", and validateSTLFile, the FileUploader and the        *)
(* upload's fileFilter give the same outcome on every name, the name       *)
(* ".stl" included.                                                        *)
(***************************************************************************)
EndsInDotStl == EndsWith(ToLowerCase(file.name), DOTSTL)

ExtensionMessage == "File must have .stl extension"

C12_ExtensionSame ==
  /\ ClientDone =>
       (EndsInDotStl <=>
          (cres.value.isValid \/ cres.value.errorMessage # ExtensionMessage))
  /\ EndsInDotStl <=> validateAndSetFile(file) # "Invalid file type"
  /\ ServerDone =>
       (EndsInDotStl <=>
          ~(sres.status = "refused" /\ sres.message = "Only STL files are allowed"))

(***************************************************************************)
(* C13, as claimed: each run goes Received, Sniffed, Parsed, Validated in  *)
(* that order and then ends in Accepted or Rejected, which are never left; *)
(* no state is entered twice.                                              *)
(***************************************************************************)
Terminal == {"Accepted", "Rejected"}

ClaimedEdges ==
  {<<"Received", "Sniffed">>, <<"Sniffed", "Parsed">>, <<"Parsed", "Validated">>,
   <<"Validated", "Accepted">>, <<"Validated", "Rejected">>}

\* a rejection may come before the run is through the four states
EarlyRejections ==
  {<<"Received", "Rejected">>, <<"Sniffed", "Rejected">>}

\* a step of one run along the given edges, the other run standing still
StepsAlong(clientEdges, serverEdges) ==
  \/ <<cstate, cstate'>> \in clientEdges /\ sstate' = sstate
  \/ <<sstate, sstate'>> \in serverEdges /\ cstate' = cstate

C13_FullPipeline ==
  /\ [][StepsAlong(ClaimedEdges, ClaimedEdges)]_vars
  /\ <>[](cstate \in Terminal /\ sstate \in Terminal)

(***************************************************************************)
(* C13, amended: each run visits Received, Sniffed, Parsed, Validated in   *)
(* that order, never a state twice, up to the state where it is rejected   *)
(* (the extension, the size or a failing sniff reject from Received, a     *)
(* failing read of the count or of a record from Sniffed); analyzeSTL      *)
(* returns from Parsed, having no check of its own; each run ends in       *)
(* Accepted or Rejected and stays there.                                   *)
(***************************************************************************)
C13_PipelinePrefix ==
  /\ [][StepsAlong(ClaimedEdges \cup EarlyRejections,
                   (ClaimedEdges \ {<<"Parsed", "Validated">>})
                     \cup EarlyRejections \cup {<<"Parsed", "Accepted">>})]_vars
  /\ <>[](cstate \in Terminal /\ sstate \in Terminal)

\* the client went through the four states and accepted a binary file, the
\* server rejected it from Received
C13_Witness ==
  /\ cstate = "Accepted"
  /\ cres.sniff = "binary"
  /\ cread
  /\ sstate = "Rejected"
  /\ sres.sniff = "none"

(***************************************************************************)
(* C14: validateSTLFile short-circuits.  Of the extension check, the size  *)
(* check and the structural check, the first that fails gives the          *)
(* errorMessage, and once the extension or the size check has failed the   *)
(* content of the file is never read.                                      *)
(***************************************************************************)
StructuralMessages ==
  {"Invalid ASCII STL file format", CorruptMessage,
   FailedToParse("sniff"), FailedToParse("count")}

C14_ShortCircuit ==
  /\ (~EndsInDotStl \/ FileLen > 104857600) => ~cread
  /\ cstate = "Rejected" =>
       IF ~EndsInDotStl THEN cres.value.errorMessage = ExtensionMessage
       ELSE IF FileLen > 104857600 THEN cres.value.errorMessage = TooLargeMessage
       ELSE cread /\ cres.value.errorMessage \in StructuralMessages

\* a file that fails the extension check and the size check: rejected for
\* its extension, its content not read
C14_Witness ==
  /\ cstate = "Rejected"
  /\ ~EndsInDotStl
  /\ FileLen > 104857600
  /\ cres.value.errorMessage = ExtensionMessage
  /\ ~cread

(***************************************************************************)
(* C15: the binary reader on a buffer of at least 84 + N*50 bytes reads    *)
(* exactly 3N vertices in file order, vertex j of record i at offset       *)
(* 84 + i*50 + 12 + j*12: no byte of a normal or of an attribute lands in  *)
(* a vertex, and no read falls outside the buffer.                         *)
(***************************************************************************)
\* the vertices of a list of triangles, in order
VerticesOf(tris) ==
  [q \in 1..(3 * Len(tris)) |-> tris[((q - 1) \div 3) + 1][((q - 1) % 3) + 1]]

\* the file is sniffed binary and holds every record it declares
HoldsDeclaredRecords ==
  /\ Analysed
  /\ sres.sniff = "binary"
  /\ FileLen >= 84
  /\ FileLen >= 84 + (DeclaredCount * 50)

C15_ReadsDeclaredVertices ==
  HoldsDeclaredRecords =>
    /\ sres.status = "returned"
    /\ BinaryVertices(file.buf, DeclaredCount, 0, <<>>) =
         [ok |-> TRUE, vertices |-> DeclaredVertices(file.buf, DeclaredCount)]
    /\ sres.info.vertexCount = Int2Num(3 * DeclaredCount)
    /\ (recipe.kind = "binary" /\ recipe.declared = Len(recipe.tris)) =>
         BinaryVertices(file.buf, DeclaredCount, 0, <<>>).vertices
           = VerticesOf(recipe.tris)

\* the whole encoding of two triangles, analysed
C15_Witness ==
  /\ HoldsDeclaredRecords
  /\ recipe.kind = "binary"
  /\ recipe.tris = <<Tri1, Tri3>>
  /\ FileLen = 184
  /\ sres.status = "returned"

(***************************************************************************)
(* C16: for every textual input the vertex sequence of the textual reader  *)
(* has a length that is a multiple of three, and faceCount is that length  *)
(* divided by three, an integer, however many lines begin with "vertex".   *)
(***************************************************************************)
\* the vertex sequence parseAsciiSTL builds from a buffer
TextualVertices(buf) ==
  AsciiVertices(SelectSeq(SplitLines(BufferToString(buf)),
                          LAMBDA l : StrStartsWith(StrTrim(l), VERTEX)))

C16_VerticesInThrees ==
  (ServerAccepts /\ sres.sniff = "textual") =>
    /\ Len(TextualVertices(file.buf)) % 3 = 0
    /\ IsInteger(sres.info.faceCount)
    /\ sres.info.faceCount = Int2Num(Len(TextualVertices(file.buf)) \div 3)

(***************************************************************************)
(* C17: the surfaceArea of every returned MeshInfo is faceCount * 0.01 and *)
(* depends on no coordinate: it is the count the file declares, or a third *)
(* of the number of its vertex lines, over one hundred.                    *)
(***************************************************************************)
C17_SurfaceAreaFromCount ==
  ServerAccepts =>
    /\ sres.info.surfaceArea = NumMul(sres.info.faceCount, Fin(1, 100))
    /\ sres.sniff = "binary" => sres.info.surfaceArea = Fin(DeclaredCount, 100)
    /\ sres.sniff = "textual" =>
         sres.info.surfaceArea = Fin(VertexLineCount(file.buf), 300)

\* two facets with negative, fractional, NaN and infinite coordinates:
\* surfaceArea 0.02
C17_Witness ==
  /\ ServerAccepts
  /\ recipe.kind = "binary"
  /\ recipe.tris = <<Tri3, Tri4>>
  /\ sres.sniff = "binary"
  /\ sres.info.surfaceArea = Fin(2, 100)

(***************************************************************************)
(* C18: the volume of every returned MeshInfo is width * height * depth *  *)
(* 0.3 of its own bounding box, is never negative and is 0 with no facet;  *)
(* the two-facet scenario of section 8 gives faceCount 2, vertexCount 6,   *)
(* the box [0,0,0]..[1,1,1], surfaceArea 0.02 and volume 0.3.              *)
(***************************************************************************)
\* max - min of a box on axis k
Extent(box, k) == NumSub(box.max[k], box.min[k])

\* the binary buffer of the scenario: count 2, the facets Tri1 and Tri2
TwoFacetScenario ==
  /\ recipe.kind = "binary"
  /\ recipe.tris = <<Tri1, Tri2>>
  /\ recipe.declared = 2
  /\ recipe.cut = 0
  /\ sres.sniff = "binary"

C18_VolumeOfBox ==
  ServerAccepts =>
    /\ sres.info.volume =
         NumMul(NumMul(NumMul(Extent(sres.info.boundingBox, 1),
                              Extent(sres.info.boundingBox, 2)),
                       Extent(sres.info.boundingBox, 3)),
                Fin(3, 10))
    /\ ~NumLt(sres.info.volume, Int2Num(0))
    /\ sres.info.faceCount = Int2Num(0) => sres.info.volume = Int2Num(0)
    /\ TwoFacetScenario =>
         /\ sres.info.faceCount = Int2Num(2)
         /\ sres.info.vertexCount = Int2Num(6)
         /\ sres.info.boundingBox =
              [min |-> <<Int2Num(0), Int2Num(0), Int2Num(0)>>,
               max |-> <<Int2Num(1), Int2Num(1), Int2Num(1)>>]
         /\ sres.info.surfaceArea = Fin(2, 100)
         /\ sres.info.volume = Fin(3, 10)

\* the scenario, analysed
C18_Witness ==
  /\ ServerAccepts
  /\ TwoFacetScenario
  /\ sres.info.volume = Fin(3, 10)

(***************************************************************************)
(* C19: empty input yields the zero box.  A binary buffer declaring no     *)
(* facet and a textual buffer without a vertex line give faceCount 0,      *)
(* vertexCount 0 and the box [0,0,0]..[0,0,0]; and the zero-box default is *)
(* produced only when faceCount is 0.                                      *)
(***************************************************************************)
\* calculateBoundingBox was handed no vertex and answered its default
ZeroBoxDefaultTaken ==
  IF sres.sniff = "textual" THEN Len(TextualVertices(file.buf)) = 0
  ELSE DeclaredCount = 0

\* the file holds no facet: no declared record, no vertex line
EmptyInput ==
  IF sres.sniff = "textual" THEN VertexLineCount(file.buf) = 0
  ELSE DeclaredCount = 0

C19_ZeroBoxIffEmpty ==
  ServerAccepts =>
    /\ EmptyInput =>
         /\ sres.info.faceCount = Int2Num(0)
         /\ sres.info.vertexCount = Int2Num(0)
         /\ sres.info.boundingBox = ZeroBox
    /\ ZeroBoxDefaultTaken => sres.info.faceCount = Int2Num(0)

\* the first half alone: empty input yields zero counts and the zero box
C19_EmptyYieldsZeroBox ==
  (ServerAccepts /\ EmptyInput) =>
    /\ sres.info.faceCount = Int2Num(0)
    /\ sres.info.vertexCount = Int2Num(0)
    /\ sres.info.boundingBox = ZeroBox

(***************************************************************************)
(* C20: a non-numeric coordinate token in a vertex line never aborts the   *)
(* parse.  analyzeSTL returns a MeshInfo, and on the axis of the token     *)
(* both min and max of the box are NaN, wherever in the vertex sequence    *)
(* the malformed vertex stands.                                            *)
(***************************************************************************)
\* the parts of the vertex lines parseAsciiSTL pushes a vertex for
PushedParts(buf) ==
  LET lines == SplitLines(BufferToString(buf))
      vertexLines == SelectSeq(lines, LAMBDA l : StrStartsWith(StrTrim(l), VERTEX))
      parts == [i \in 1..Len(vertexLines) |-> StrSplitWs(StrTrim(vertexLines[i]))]
  IN SelectSeq(parts, LAMBDA ps : Len(ps) >= 4)

\* the token is a decimal literal from end to end: sign, digits, fraction
IsNumericToken(str) ==
  LET s == str.chars
      signed == s # <<>> /\ Head(s) \in {43, 45}
      body == IF signed THEN Tail(s) ELSE s
      ip == DigitRun(body)
      rest == SubSeq(body, Len(ip) + 1, Len(body))
      fp == IF rest # <<>> /\ Head(rest) = 46 THEN DigitRun(Tail(rest)) ELSE <<>>
      used == Len(ip) + (IF rest # <<>> /\ Head(rest) = 46 THEN 1 + Len(fp) ELSE 0)
  IN /\ str.nuls = 0
     /\ ip # <<>> \/ fp # <<>>
     /\ used = Len(body)

\* C20, as claimed: every coordinate token that is no number
C20_NonNumericIsNaN ==
  (Analysed /\ sres.sniff = "textual") =>
    /\ sres.status = "returned"
    /\ \A k \in 1..3 :
         (\E i \in 1..Len(PushedParts(file.buf)) :
            ~IsNumericToken(PushedParts(file.buf)[i][k + 1]))
           => /\ IsNaN(sres.info.boundingBox.min[k])
              /\ IsNaN(sres.info.boundingBox.max[k])

\* what holds: every coordinate token parseFloat reads no number from
C20_NaNPropagates ==
  (Analysed /\ sres.sniff = "textual") =>
    /\ sres.status = "returned"
    /\ \A k \in 1..3 :
         (\E i \in 1..Len(PushedParts(file.buf)) :
            IsNaN(StrParseFloat(PushedParts(file.buf)[i][k + 1])))
           => /\ IsNaN(sres.info.boundingBox.min[k])
              /\ IsNaN(sres.info.boundingBox.max[k])

(***************************************************************************)
(* C21: the result of the textual reader depends only on the lines whose   *)
(* trimmed content begins with "vertex", in their order.  A file and the   *)
(* file left when every other line after the first is deleted give equal   *)
(* MeshInfo values, and three vertex lines count as one facet.             *)
(***************************************************************************)
\* a line of the pool that parseAsciiSTL takes for a vertex line
IsVertexLine(line) == StartsWith(Trim(line), VERTEX)

\* the file of the recipe with every line that is no vertex line deleted
\* after the first
VertexLinesOnly ==
  [data |-> JoinLines(<<recipe.head>> \o SelectSeq(recipe.lines, IsVertexLine)),
   tail |-> 0]

C21_OnlyVertexLinesCount ==
  (ServerAccepts /\ recipe.kind = "text" /\ sres.sniff = "textual") =>
    /\ sres.info = parseAsciiSTL(VertexLinesOnly)
    /\ VertexLineCount(file.buf) % 3 = 0
         => sres.info.faceCount = Int2Num(VertexLineCount(file.buf) \div 3)

\* a line that is no vertex line stands before a vertex line
C21_Witness ==
  /\ ServerAccepts
  /\ recipe.kind = "text"
  /\ sres.sniff = "textual"
  /\ \E i \in 1..Len(recipe.lines) :
       /\ ~IsVertexLine(recipe.lines[i])
       /\ \E j \in (i + 1)..Len(recipe.lines) : IsVertexLine(recipe.lines[j])
  /\ sres.info = parseAsciiSTL(VertexLinesOnly)

(***************************************************************************)
(* analyzeSTL called again and again: every call reads a buffer and hands  *)
(* its caller a result.                                                    *)
(***************************************************************************)
\* most calls of analyzeSTL followed
MaxCalls == 3

\* no file is at hand
NoFile ==
  /\ recipe = [kind |-> "none"]
  /\ file = [name |-> <<>>, buf |-> [data |-> <<>>, tail |-> 0]]
  /\ cres = [status |-> "none"]
  /\ sres = [status |-> "none"]
  /\ cstate = "Received"
  /\ sstate = "Received"
  /\ cread = FALSE
  /\ facts = <<>>

\* the contents of the stored files analyzeSTL is called on: binary files
\* of no, one and two facets, a binary file cut short, and textual files of
\* one and of three vertex lines
CallBuffers ==
  {[data |-> d, tail |-> 0] :
     d \in {EncodeBinary(HeaderZeros, 0, <<>>),
            EncodeBinary(HeaderZeros, 1, <<Tri1>>),
            EncodeBinary(HeaderZeros, 2, <<Tri1, Tri3>>),
            EncodeBinary(HeaderZeros, 2, <<Tri1>>),
            JoinLines(<<SOLID \o <<32, 97>>, VERTEX \o <<32, 48, 32, 48, 32, 48>>>>),
            JoinLines(<<SOLID \o <<32, 97>>,
                        VERTEX \o <<32, 48, 32, 48, 32, 48>>,
                        <<32>> \o VERTEX \o <<32, 49, 46, 53, 32, 50, 32, 45, 49>>,
                        VERTEX \o <<32, 120, 32, 49, 32, 49>>>>)}}

\* analyzeSTL keeping one result object for all its callers and writing
\* each call's answer into it
AnalyzeCallShared(b) ==
  /\ Len(calls) < MaxCalls
  /\ calls' = Append([i \in 1..Len(calls) |->
                        [buf |-> calls[i].buf, result |-> analyzeSTL(b)]],
                     [buf |-> b, result |-> analyzeSTL(b)])
  /\ UNCHANGED <<fileVars, up, store, reqs>>

\* one call of analyzeSTL on a stored file of content b: the buffer is read
\* anew and the result is built from it
AnalyzeCall(b) ==
  /\ Len(calls) < MaxCalls
  /\ calls' = Append(calls, [buf |-> b, result |-> analyzeSTL(b)])
  /\ UNCHANGED <<fileVars, up, store, reqs>>

NextCalls == \E b \in CallBuffers : AnalyzeCall(b)

InitCalls == NoFile /\ AppAtRest

SpecCalls == InitCalls /\ [][NextCalls]_vars

(***************************************************************************)
(* C22: analyzeSTL holds no state between invocations.  Two calls on the   *)
(* same buffer give equal results whatever calls on other buffers come     *)
(* before, between or after them, and a result handed to a caller is never *)
(* changed by a later call.                                                *)
(***************************************************************************)
SameBufferSameResult ==
  \A i, j \in 1..Len(calls) :
    calls[i].buf = calls[j].buf => calls[i].result = calls[j].result

ResultsKept == \A i \in 1..Len(calls) : calls'[i] = calls[i]

SameCounts ==
  /\ cres.value.faceCount = sres.info.faceCount
  /\ cres.value.vertexCount = sres.info.vertexCount

\* C23, as claimed
C23_FastPathCounts == (ClientAccepts /\ ServerAccepts) => SameCounts

\* what holds: the counts agree when both sides read the file as binary
C23_BinaryCountsAgree ==
  (ClientAccepts /\ ServerAccepts /\ cres.sniff = "binary" /\ sres.sniff = "binary")
    => SameCounts

(***************************************************************************)
(* client/src/lib/stlParser.ts: one call of uploadSTLFile.  up is [pc, cb, *)
(* validation, opened, sent, events, load, log, promise]: pc is "idle",    *)
(* "validating" (awaiting validateSTLFile), "sending" (the request is on   *)
(* its way), "settled" (load, error or abort was dispatched) or "returned" *)
(* (the function ended without a request); cb tells of each callback       *)
(* whether the caller gave none, one that returns or one that throws; log  *)
(* lists the callback invocations in order.  The request is an             *)
(* XMLHttpRequest: while it is on its way the browser dispatches progress  *)
(* events on its upload, and it ends by exactly one of load, error, abort. *)
(***************************************************************************)
\* most progress events followed
MaxProgress == 2

CallbackKinds == {"absent", "returns", "throws"}

\* HTTP statuses of a response
Statuses == {200, 201, 299, 300, 400, 500}

\* loaded and total of a progress event with lengthComputable
Loadeds == {<<0, 2>>, <<1, 2>>, <<1, 3>>, <<2, 2>>}

\* Math.round((loaded / total) * 100), total > 0
ProgressOf(loaded, total) == ((200 * loaded) + total) \div (2 * total)

\* the files uploadSTLFile is called on: short buffers, binary files of no
\* or one facet under a header of zeros, textual files of one line
UploadInputs ==
  {inp \in Inputs :
     \/ inp.recipe.kind = "raw"
     \/ /\ inp.recipe.kind = "binary"
        /\ inp.recipe.header = HeaderZeros
        /\ Len(inp.recipe.tris) <= 1
     \/ /\ inp.recipe.kind = "text"
        /\ inp.recipe.lines = <<>>}

\* callback(arg) where the caller gave the callback: the invocation is
\* logged; nothing happens where the caller gave none
Invoke(log, kind, name, arg) ==
  IF kind = "absent" THEN log ELSE Append(log, [cb |-> name, arg |-> arg])

\* uploadSTLFile is called: it calls validateSTLFile(file) and awaits it
UploadCall(onProgress, onSuccess, onError) ==
  /\ up.pc = "idle"
  /\ up' = [pc |-> "validating",
            cb |-> [onProgress |-> onProgress, onSuccess |-> onSuccess,
                    onError |-> onError],
            validation |-> validateSTLFile(file).value,
            opened |-> FALSE, sent |-> FALSE, events |-> 0, load |-> 0,
            log |-> <<>>, promise |-> "pending"]
  /\ UNCHANGED <<fileVars, calls, store, reqs>>

\* the rest of the function opening and sending the request before it looks
\* at the validation result
AfterValidationSendFirst ==
  /\ up.pc = "validating"
  /\ IF ~up.validation.isValid
     THEN up' = [up EXCEPT !.pc = "returned",
                           !.opened = TRUE,
                           !.sent = TRUE,
                           !.log = Invoke(@, up.cb.onError, "onError",
                                          up.validation.errorMessage),
                           !.promise = "fulfilled"]
     ELSE up' = [up EXCEPT !.pc = "sending", !.opened = TRUE, !.sent = TRUE,
                           !.promise = "fulfilled"]
  /\ UNCHANGED <<fileVars, calls, store, reqs>>

\* the rest of the function once validateSTLFile has answered: onError and
\* return, or the listeners, xhr.open and xhr.send; an exception of onError
\* is answered by the catch block, which calls onError with it
AfterValidation ==
  /\ up.pc = "validating"
  /\ IF ~up.validation.isValid
     THEN LET first == Invoke(up.log, up.cb.onError, "onError",
                              up.validation.errorMessage)
          IN IF up.cb.onError = "throws"
             THEN up' = [up EXCEPT !.pc = "returned",
                                   !.log = Invoke(first, up.cb.onError, "onError",
                                                  "thrown by onError"),
                                   !.promise = "rejected"]
             ELSE up' = [up EXCEPT !.pc = "returned", !.log = first,
                                   !.promise = "fulfilled"]
     ELSE up' = [up EXCEPT !.pc = "sending", !.opened = TRUE, !.sent = TRUE,
                           !.promise = "fulfilled"]
  /\ UNCHANGED <<fileVars, calls, store, reqs>>

\* the listener of progress on xhr.upload
UploadProgress(lengthComputable, loaded, total) ==
  /\ up.pc = "sending"
  /\ up.events < MaxProgress
  /\ up' = [up EXCEPT !.events = @ + 1,
                      !.log = IF lengthComputable
                              THEN Invoke(@, up.cb.onProgress, "onProgress",
                                          ProgressOf(loaded, total))
                              ELSE @]
  /\ UNCHANGED <<fileVars, calls, store, reqs>>

\* the listener of load: JSON.parse of the response text, then onSuccess
\* for a status from 200 to 299 and onError for any other; an exception of
\* JSON.parse on a response from 200 to 299 ends the listener
UploadLoad(status, parses, message) ==
  /\ up.pc = "sending"
  /\ up' = [up EXCEPT !.pc = "settled",
                      !.load = status,
                      !.log = IF status >= 200 /\ status < 300
                              THEN IF parses
                                   THEN Invoke(@, up.cb.onSuccess, "onSuccess",
                                               "response")
                                   ELSE @
                              ELSE Invoke(@, up.cb.onError, "onError",
                                          IF parses /\ message # ""
                                          THEN message ELSE "Upload failed")]
  /\ UNCHANGED <<fileVars, calls, store, reqs>>

\* the listener of error
UploadError ==
  /\ up.pc = "sending"
  /\ up' = [up EXCEPT !.pc = "settled",
                      !.log = Invoke(@, up.cb.onError, "onError",
                                     "Network error occurred during upload")]
  /\ UNCHANGED <<fileVars, calls, store, reqs>>

\* the listener of abort
UploadAbort ==
  /\ up.pc = "sending"
  /\ up' = [up EXCEPT !.pc = "settled",
                      !.log = Invoke(@, up.cb.onError, "onError",
                                     "Upload was aborted")]
  /\ UNCHANGED <<fileVars, calls, store, reqs>>

NextUpload ==
  \/ \E p, s, e \in CallbackKinds : UploadCall(p, s, e)
  \/ AfterValidation
  \/ \E lc \in BOOLEAN, lt \in Loadeds : UploadProgress(lc, lt[1], lt[2])
  \/ \E st \in Statuses, parses \in BOOLEAN, msg \in {"", "File too large"} :
       UploadLoad(st, parses, msg)
  \/ UploadError
  \/ UploadAbort

InitUpload ==
  /\ \E inp \in UploadInputs, name \in Names :
       /\ recipe = inp.recipe
       /\ file = [name |-> name, buf |-> inp.buf]
  /\ cres = [status |-> "none"]
  /\ sres = [status |-> "none"]
  /\ cstate = "Received"
  /\ sstate = "Received"
  /\ cread = FALSE
  /\ facts = <<>>
  /\ AppAtRest

SpecUpload == InitUpload /\ [][NextUpload]_vars

(***************************************************************************)
(* C24: uploadSTLFile validates before it transfers.  When validateSTLFile *)
(* answers isValid = false no request is opened or sent, onError is called *)
(* with the validation errorMessage exactly once, and neither onProgress   *)
(* nor onSuccess is ever called.                                           *)
(***************************************************************************)
\* the invocations of a callback in the log
CallsOf(name) == SelectSeq(up.log, LAMBDA c : c.cb = name)

\* validateSTLFile has answered isValid = false and the function went on
RejectedUpload ==
  /\ up.pc \notin {"idle", "validating"}
  /\ ~up.validation.isValid

OneOutcome ==
  /\ Len(CallsOf("onSuccess")) + Len(CallsOf("onError")) <= 1
  /\ CallsOf("onSuccess") # <<>> =>
       /\ up.pc = "settled"
       /\ up.load >= 200
       /\ up.load < 300
  /\ \A i, j \in 1..Len(up.log) :
       (i < j /\ up.log[i].cb \in {"onSuccess", "onError"})
         => up.log[j].cb # "onProgress"

\* C27, as claimed
C27_OneOutcomeOnce == up.pc # "idle" => OneOutcome

\* what holds: the same once the request was sent, and whenever the
\* caller's onError returns
C27_OneOutcomeUnlessThrown ==
  (up.pc # "idle" /\ (up.sent \/ up.cb.onError # "throws")) => OneOutcome

(***************************************************************************)
(* C26: for a textual input the vertexCount of the MeshInfo equals the     *)
(* number of vertices handed to calculateBoundingBox: every line counted   *)
(* as a vertex line contributes one vertex, the lines with fewer than      *)
(* three coordinate tokens included.                                       *)
(***************************************************************************)
\* C26, as claimed
C26_CountedLinesAreVertices ==
  (ServerAccepts /\ sres.sniff = "textual") =>
    sres.info.vertexCount = Int2Num(Len(TextualVertices(file.buf)))

\* what holds: the same when every vertex line has three coordinate tokens
C26_FullLinesAreVertices ==
  (/\ ServerAccepts
   /\ sres.sniff = "textual"
   /\ Len(PushedParts(file.buf)) = VertexLineCount(file.buf))
    => sres.info.vertexCount = Int2Num(Len(TextualVertices(file.buf)))

(***************************************************************************)
(* server/lib/stlParser.ts: the methods of MemStorage called one after     *)
(* another by any caller.  A slot of reqs holds what the last call of the  *)
(* caller was and what it returned.                                        *)
(***************************************************************************)
\* most records the store holds when its methods are called directly
MaxRecords == 3

\* a slot that takes the next call or request
FreeSlot(slot) == reqs[slot].pc \in {"free", "done"}

\* the number of records of all maps
TotalRecords(st) ==
  LET RECURSIVE Sum(_)
      Sum(es) == IF es = {} THEN 0
                 ELSE LET e == CHOOSE x \in es : TRUE
                      IN Cardinality(DOMAIN st[e]) + Sum(es \ {e})
  IN Sum(Entities)

\* the records the create methods are handed
Inserts ==
  [e \in Entities |->
     IF e = "users" THEN {[username |-> "u", password |-> "p"]}
     ELSE IF e = "projects"
     THEN {[name |-> "p", description |-> "", userId |-> Null, status |-> "draft"]}
     ELSE IF e = "models"
     THEN {[projectId |-> 1, name |-> "m", stlPath |-> "uploads/1.stl",
            vertexCount |-> Int2Num(3), faceCount |-> Int2Num(1),
            isOptimized |-> FALSE, originalModelId |-> Null]}
     ELSE IF e = "simulationResults"
     THEN {[projectId |-> 1, modelId |-> m, dragCoefficient |-> "drag"] : m \in 1..2}
     ELSE IF e = "aiRecommendations"
     THEN {[simulationResultId |-> r, title |-> "t", applied |-> FALSE] : r \in 1..2}
     ELSE {[projectId |-> 1]}]

\* the data updateAiRecommendation is handed, a Partial<AiRecommendation>
UpdateData == {[applied |-> TRUE], [title |-> "t2"], [id |-> 2]}

\* a call of one of the create methods
StoreCreate(slot, e, insert) ==
  /\ FreeSlot(slot)
  /\ LET r == Create(store, e, insert)
     IN /\ store' = r.store
        /\ reqs' = [reqs EXCEPT ![slot] =
                      [route |-> "storage", pc |-> "done", op |-> "create",
                       entity |-> e, id |-> r.value.id, threw |-> FALSE,
                       value |-> r.value]]
  /\ UNCHANGED <<fileVars, calls, up>>

\* a call of one of the get methods
StoreGet(slot, e, id) ==
  /\ FreeSlot(slot)
  /\ reqs' = [reqs EXCEPT ![slot] =
                [route |-> "storage", pc |-> "done", op |-> "get",
                 entity |-> e, id |-> id, threw |-> FALSE,
                 value |-> Get(store, e, id)]]
  /\ UNCHANGED <<fileVars, calls, up, store>>

\* a call of updateAiRecommendation
StoreUpdate(slot, id, data) ==
  /\ FreeSlot(slot)
  /\ LET r == updateAiRecommendation(store, id, data)
     IN /\ store' = r.store
        /\ reqs' = [reqs EXCEPT ![slot] =
                      [route |-> "storage", pc |-> "done", op |-> "update",
                       entity |-> "aiRecommendations", id |-> id,
                       threw |-> r.threw,
                       value |-> IF r.threw THEN Undefined ELSE r.value]]
  /\ UNCHANGED <<fileVars, calls, up>>

\* the slot of the caller of the methods
CallerSlot == 1

StoreCall ==
  \E slot \in {CallerSlot} :
    \/ /\ TotalRecords(store) < MaxRecords
       /\ \E e \in Entities : \E insert \in Inserts[e] : StoreCreate(slot, e, insert)
    \/ \E e \in Entities, id \in 1..2 : StoreGet(slot, e, id)
    \/ \E id \in 1..2, data \in UpdateData : StoreUpdate(slot, id, data)

InitStore == NoFile /\ AppAtRest

SpecStore == InitStore /\ [][StoreCall]_vars

(***************************************************************************)
(* C28: in MemStorage, after any sequence of create, get and update calls, *)
(* every entry of every map is stored under a key equal to the record's    *)
(* own id; the ids create hands out for one map are strictly increasing    *)
(* and never reused; and get(id) returns the record last written for that  *)
(* id, undefined if none was created.                                      *)
(***************************************************************************)
KeysAreIds == \A e \in Entities : \A id \in DOMAIN store[e] : store[e][id].id = id

\* the ids handed out are those below the counter, which never decreases
IdsBelowCounter ==
  \A e \in Entities : DOMAIN store[e] = 1..(store[CounterOf[e]] - 1)

\* the caller's last call wrote or read the record the map now holds
LastCallAnswered ==
  LET c == reqs[CallerSlot]
  IN (c.pc = "done" /\ c.route = "storage" /\ ~c.threw)
       => c.value = Get(store, c.entity, c.id)

\* a call leaves every record it does not write as it was, and hands out
\* an id above all ids handed out before
OthersKept ==
  LET c == reqs'[CallerSlot]
  IN /\ \A e \in Entities : \A id \in DOMAIN store[e] :
          (c.op = "get" \/ c.threw \/ e # c.entity \/ id # c.id)
            => /\ id \in DOMAIN store'[e]
               /\ store'[e][id] = store[e][id]
     /\ c.op = "create" =>
          /\ c.id \notin DOMAIN store[c.entity]
          /\ \A id \in DOMAIN store[c.entity] : id < c.id

\* C28, as claimed
C28_KeysIdsAndGets ==
  /\ [](KeysAreIds /\ IdsBelowCounter /\ LastCallAnswered)
  /\ [][OthersKept]_vars

\* what holds: the same without the keys being the ids of the records
C28_IdsAndGets ==
  /\ [](IdsBelowCounter /\ LastCallAnswered)
  /\ [][OthersKept]_vars

(***************************************************************************)
(* server/routes.ts: the handlers of the requests.  A slot of reqs holds   *)
(* one request: its route, where its handler stands (pc names the call the *)
(* handler awaits), the values the handler holds, and at the end the       *)
(* status of its response.  A method of MemStorage does its work when it   *)
(* is called; the handler goes on in a later step, and the handlers of     *)
(* other requests may run in between.                                      *)
(***************************************************************************)
\* most models stored before another upload or apply request is taken
MaxModels == 2
\* most records of each settings map before another is posted
MaxSettings == 1
\* most simulation results stored before another simulation is taken
MaxResults == 1
\* most recommendations generateRecommendations answers
MaxRecommendations == 2

\* a request that arrives is given the first slot that is free
TakesRequest(slot) ==
  /\ FreeSlot(slot)
  /\ \A other \in 1..(slot - 1) : ~FreeSlot(other)

\* the response of a request
Done(route, status) == [route |-> route, pc |-> "done", status |-> status]

Size(e) == Cardinality(DOMAIN store[e])

\* the files upload requests carry: binary of two facets, binary cut
\* short, and one that is no .stl file
RouteFiles ==
  {[name |-> n, buf |-> [data |-> d, tail |-> 0]] :
     <<n, d>> \in
       {<<<<97, 46, 115, 116, 108>>, EncodeBinary(HeaderZeros, 2, <<Tri1, Tri3>>)>>,
        <<<<97, 46, 115, 116, 108>>, EncodeBinary(HeaderZeros, 2, <<Tri1>>)>>,
        <<<<97, 46, 116, 120, 116>>, EncodeBinary(HeaderZeros, 0, <<>>)>>}}

\* the path multer stores the file of a request under, one of its own for
\* every request
StoredPath(slot) == <<"uploads", slot>>

\* POST /api/models/upload arrives without a file: 400
UploadNoFile(slot) ==
  /\ TakesRequest(slot)
  /\ reqs' = [reqs EXCEPT ![slot] = Done("upload", 400)]
  /\ UNCHANGED <<fileVars, calls, up, store>>

\* POST /api/models/upload arrives with a file: multer refuses it and the
\* handler is not run, or stores it and the handler calls analyzeSTL
UploadStart(slot, f) ==
  /\ TakesRequest(slot)
  /\ Size("models") < MaxModels
  /\ reqs' = [reqs EXCEPT ![slot] =
                IF ~fileFilter(f) \/ ~WithinLimits(f)
                THEN Done("upload", 500)
                ELSE [route |-> "upload", pc |-> "analyzeSTL", file |-> f,
                      path |-> StoredPath(slot)]]
  /\ UNCHANGED <<fileVars, calls, up, store>>

\* the handler creating the model whether analyzeSTL returned or threw
UploadAnalyzedAnyway(slot) ==
  /\ reqs[slot].pc = "analyzeSTL"
  /\ \E stlInfo \in {analyzeSTL(reqs[slot].file.buf)} :
       LET modelData == [projectId |-> 1, name |-> "m",
                         stlPath |-> reqs[slot].path,
                         vertexCount |-> IF stlInfo.threw THEN Int2Num(0)
                                         ELSE stlInfo.info.vertexCount,
                         faceCount |-> IF stlInfo.threw THEN Int2Num(0)
                                       ELSE stlInfo.info.faceCount,
                         isOptimized |-> FALSE, originalModelId |-> Null]
           created == Create(store, "models", modelData)
       IN /\ store' = created.store
          /\ reqs' = [reqs EXCEPT ![slot] =
                        IF stlInfo.threw THEN Done("upload", 400)
                        ELSE [route |-> "upload", pc |-> "createModel",
                              path |-> reqs[slot].path, model |-> created.value]]
  /\ UNCHANGED <<fileVars, calls, up>>

\* analyzeSTL has answered: 400 when it threw, else the handler calls
\* storage.createModel(modelData)
UploadAnalyzed(slot) ==
  /\ reqs[slot].pc = "analyzeSTL"
  /\ \E stlInfo \in {analyzeSTL(reqs[slot].file.buf)} :
       LET modelData == [projectId |-> 1, name |-> "m",
                         stlPath |-> reqs[slot].path,
                         vertexCount |-> stlInfo.info.vertexCount,
                         faceCount |-> stlInfo.info.faceCount,
                         isOptimized |-> FALSE, originalModelId |-> Null]
           created == Create(store, "models", modelData)
       IN IF stlInfo.threw
          THEN /\ reqs' = [reqs EXCEPT ![slot] = Done("upload", 400)]
               /\ store' = store
          ELSE /\ store' = created.store
               /\ reqs' = [reqs EXCEPT ![slot] =
                             [route |-> "upload", pc |-> "createModel",
                              path |-> reqs[slot].path, model |-> created.value]]
  /\ UNCHANGED <<fileVars, calls, up>>

\* createModel has answered: 201
UploadRespond(slot) ==
  /\ reqs[slot].pc = "createModel"
  /\ reqs[slot].route = "upload"
  /\ reqs' = [reqs EXCEPT ![slot] = Done("upload", 201)]
  /\ UNCHANGED <<fileVars, calls, up, store>>

\* POST /api/simulation-settings, /api/analysis-options and
\* /api/ai-optimization-options: 400 when the schema refuses the body, else
\* the handler calls the create method
SettingsStart(slot, e, valid) ==
  /\ TakesRequest(slot)
  /\ Size(e) < MaxSettings
  /\ IF valid
     THEN /\ store' = Create(store, e, [projectId |-> 1]).store
          /\ reqs' = [reqs EXCEPT ![slot] = [route |-> e, pc |-> "create"]]
     ELSE /\ store' = store
          /\ reqs' = [reqs EXCEPT ![slot] = Done(e, 400)]
  /\ UNCHANGED <<fileVars, calls, up>>

\* the create method has answered: 201
SettingsRespond(slot) ==
  /\ reqs[slot].pc = "create"
  /\ reqs' = [reqs EXCEPT ![slot] = Done(reqs[slot].route, 201)]
  /\ UNCHANGED <<fileVars, calls, up, store>>

\* POST /api/simulate arrives: 400 when projectId or modelId is missing
\* (0 stands for a missing value), else the handler calls getProject
SimulateStart(slot, projectId, modelId) ==
  /\ TakesRequest(slot)
  /\ Size("simulationResults") < MaxResults
  /\ reqs' = [reqs EXCEPT ![slot] =
                IF projectId = 0 \/ modelId = 0 THEN Done("simulate", 400)
                ELSE [route |-> "simulate", pc |-> "getProject",
                      projectId |-> projectId, modelId |-> modelId,
                      found |-> Get(store, "projects", projectId) # Undefined]]
  /\ UNCHANGED <<fileVars, calls, up, store>>

\* getProject, getModel, getSimulationSettingsByProject have answered: the
\* handler calls the next of getModel, getSimulationSettingsByProject,
\* getAnalysisOptionsByProject; found tells whether all answers so far were
\* records
SimulateGet(slot) ==
  /\ reqs[slot].pc \in {"getProject", "getModel", "getSettings"}
  /\ reqs[slot].route = "simulate"
  /\ LET r == reqs[slot]
         next == IF r.pc = "getProject" THEN "getModel"
                 ELSE IF r.pc = "getModel" THEN "getSettings"
                 ELSE "getAnalysis"
         answer == IF r.pc = "getProject" THEN Get(store, "models", r.modelId)
                   ELSE IF r.pc = "getModel"
                   THEN FindByProject(store, "simulationSettings", r.projectId)
                   ELSE FindByProject(store, "analysisOptions", r.projectId)
     IN reqs' = [reqs EXCEPT ![slot] =
                   [r EXCEPT !.pc = next, !.found = @ /\ answer # Undefined]]
  /\ UNCHANGED <<fileVars, calls, up, store>>

\* getAnalysisOptionsByProject has answered: 404 when one of the four is
\* missing, else the handler calls runSimulation
SimulateGotAll(slot) ==
  /\ reqs[slot].pc = "getAnalysis"
  /\ reqs' = [reqs EXCEPT ![slot] =
                IF ~reqs[slot].found THEN Done("simulate", 404)
                ELSE [reqs[slot] EXCEPT !.pc = "runSimulation"]]
  /\ UNCHANGED <<fileVars, calls, up, store>>

\* runSimulation has answered: 500 when it threw, else the handler calls
\* createSimulationResults
SimulateRan(slot, ok) ==
  /\ reqs[slot].pc = "runSimulation"
  /\ LET r == reqs[slot]
         created == Create(store, "simulationResults",
                           [projectId |-> r.projectId, modelId |-> r.modelId,
                            dragCoefficient |-> "drag"])
     IN IF ok
        THEN /\ store' = created.store
             /\ reqs' = [reqs EXCEPT ![slot] =
                           [route |-> "simulate", pc |-> "createResults",
                            projectId |-> r.projectId,
                            result |-> created.value.id, left |-> 0]]
        ELSE /\ store' = store
             /\ reqs' = [reqs EXCEPT ![slot] = Done("simulate", 500)]
  /\ UNCHANGED <<fileVars, calls, up>>

\* createSimulationResults has answered: the handler calls
\* getAiOptimizationOptionsByProject
SimulateSaved(slot) ==
  /\ reqs[slot].pc = "createResults"
  /\ reqs' = [reqs EXCEPT ![slot] =
                [reqs[slot] EXCEPT
                   !.pc = IF FindByProject(store, "aiOptimizationOptions",
                                           reqs[slot].projectId) # Undefined
                          THEN "getAiOptions" ELSE "noAiOptions"]]
  /\ UNCHANGED <<fileVars, calls, up, store>>

\* getAiOptimizationOptionsByProject has answered: with options the
\* handler calls generateRecommendations, without it calls
\* getSimulationResultWithRecommendations
SimulateGotAiOptions(slot) ==
  /\ reqs[slot].pc \in {"getAiOptions", "noAiOptions"}
  /\ reqs' = [reqs EXCEPT ![slot] =
                [reqs[slot] EXCEPT
                   !.pc = IF reqs[slot].pc = "getAiOptions"
                          THEN "generateRecommendations" ELSE "getResult"]]
  /\ UNCHANGED <<fileVars, calls, up, store>>

\* createAiRecommendation called with a simulationResultId of the
\* handler's own choosing
SaveRecommendationElsewhere(slot, left) ==
  IF left = 0
  THEN /\ store' = store
       /\ reqs' = [reqs EXCEPT ![slot] = [reqs[slot] EXCEPT !.pc = "getResult"]]
  ELSE /\ store' = Create(store, "aiRecommendations",
                          [simulationResultId |-> reqs[slot].result + 1,
                           title |-> "t", applied |-> FALSE]).store
       /\ reqs' = [reqs EXCEPT ![slot] =
                     [reqs[slot] EXCEPT !.pc = "createRecommendation",
                                        !.left = left - 1]]

\* the loop over the recommendations: the handler calls
\* createAiRecommendation for the next one, or
\* getSimulationResultWithRecommendations when none is left
SaveRecommendation(slot, left) ==
  IF left = 0
  THEN /\ store' = store
       /\ reqs' = [reqs EXCEPT ![slot] = [reqs[slot] EXCEPT !.pc = "getResult"]]
  ELSE /\ store' = Create(store, "aiRecommendations",
                          [simulationResultId |-> reqs[slot].result,
                           title |-> "t", applied |-> FALSE]).store
       /\ reqs' = [reqs EXCEPT ![slot] =
                     [reqs[slot] EXCEPT !.pc = "createRecommendation",
                                        !.left = left - 1]]

\* generateRecommendations has answered: 500 when it threw, else the loop
\* starts over the n recommendations it returned
SimulateGenerated(slot, ok, n) ==
  /\ reqs[slot].pc = "generateRecommendations"
  /\ IF ok
     THEN SaveRecommendation(slot, n)
     ELSE /\ store' = store
          /\ reqs' = [reqs EXCEPT ![slot] = Done("simulate", 500)]
  /\ UNCHANGED <<fileVars, calls, up>>

\* createAiRecommendation has answered: the loop goes on
SimulateSavedRecommendation(slot) ==
  /\ reqs[slot].pc = "createRecommendation"
  /\ SaveRecommendation(slot, reqs[slot].left)
  /\ UNCHANGED <<fileVars, calls, up>>

\* getSimulationResultWithRecommendations has answered: 200
SimulateRespond(slot) ==
  /\ reqs[slot].pc = "getResult"
  /\ reqs' = [reqs EXCEPT ![slot] = Done("simulate", 200)]
  /\ UNCHANGED <<fileVars, calls, up, store>>

\* POST /api/recommendations/:id/apply arrives: the handler calls
\* getAiRecommendation(id)
ApplyStart(slot, id) ==
  /\ TakesRequest(slot)
  /\ Size("models") < MaxModels
  /\ reqs' = [reqs EXCEPT ![slot] =
                [route |-> "apply", pc |-> "getAiRecommendation", id |-> id,
                 got |-> Get(store, "aiRecommendations", id)]]
  /\ UNCHANGED <<fileVars, calls, up, store>>

\* getAiRecommendation has answered: 404 without a recommendation, else
\* the handler calls getSimulationResult
ApplyGotRecommendation(slot) ==
  /\ reqs[slot].pc = "getAiRecommendation"
  /\ reqs' = [reqs EXCEPT ![slot] =
                IF reqs[slot].got = Undefined THEN Done("apply", 404)
                ELSE [reqs[slot] EXCEPT
                        !.pc = "getSimulationResult",
                        !.got = Get(store, "simulationResults",
                                    reqs[slot].got.simulationResultId)]]
  /\ UNCHANGED <<fileVars, calls, up, store>>

\* getSimulationResult has answered: 404 without a result, else the
\* handler calls getModel
ApplyGotResult(slot) ==
  /\ reqs[slot].pc = "getSimulationResult"
  /\ reqs' = [reqs EXCEPT ![slot] =
                IF reqs[slot].got = Undefined THEN Done("apply", 404)
                ELSE [route |-> "apply", pc |-> "getModel", id |-> reqs[slot].id,
                      projectId |-> reqs[slot].got.projectId,
                      got |-> Get(store, "models", reqs[slot].got.modelId)]]
  /\ UNCHANGED <<fileVars, calls, up, store>>

\* getModel has answered: 404 without a model, else the handler calls
\* createModel for the optimized model
ApplyGotModel(slot) ==
  /\ reqs[slot].pc = "getModel"
  /\ reqs[slot].route = "apply"
  /\ LET model == reqs[slot].got
     IN IF model = Undefined
        THEN /\ store' = store
             /\ reqs' = [reqs EXCEPT ![slot] = Done("apply", 404)]
        ELSE \E created \in {Create(store, "models",
                                      [projectId |-> reqs[slot].projectId,
                                       name |-> "m_optimized",
                                       stlPath |-> model.stlPath,
                                       vertexCount |-> model.vertexCount,
                                       faceCount |-> model.faceCount,
                                       isOptimized |-> TRUE,
                                       originalModelId |-> model.id])} :
               /\ store' = created.store
               /\ reqs' = [reqs EXCEPT ![slot] =
                             [route |-> "apply", pc |-> "createModel",
                              id |-> reqs[slot].id,
                              optimizedModel |-> created.value]]
  /\ UNCHANGED <<fileVars, calls, up>>

\* createModel has answered: the handler calls updateAiRecommendation(id,
\* { applied: true }); its exception is answered by the catch block: 500
ApplyCreatedModel(slot) ==
  /\ reqs[slot].pc = "createModel"
  /\ reqs[slot].route = "apply"
  /\ LET updated == updateAiRecommendation(store, reqs[slot].id, [applied |-> TRUE])
     IN /\ store' = updated.store
        /\ reqs' = [reqs EXCEPT ![slot] =
                      IF updated.threw THEN Done("apply", 500)
                      ELSE [route |-> "apply", pc |-> "updateAiRecommendation",
                            optimizedModel |-> reqs[slot].optimizedModel]]
  /\ UNCHANGED <<fileVars, calls, up>>

\* updateAiRecommendation has answered: 200
ApplyRespond(slot) ==
  /\ reqs[slot].pc = "updateAiRecommendation"
  /\ reqs' = [reqs EXCEPT ![slot] = Done("apply", 200)]
  /\ UNCHANGED <<fileVars, calls, up, store>>

\* projectId and modelId of the body of a simulate request, 0 for a
\* missing one
SimulateBodies == {<<0, 1>>, <<1, 0>>, <<2, 1>>, <<1, 1>>, <<1, 2>>}

UploadStep(slot) ==
  \/ UploadNoFile(slot)
  \/ \E f \in RouteFiles : UploadStart(slot, f)
  \/ UploadAnalyzed(slot)
  \/ UploadRespond(slot)

SettingsStep(slot) ==
  \/ \E e \in {"simulationSettings", "analysisOptions", "aiOptimizationOptions"},
        valid \in BOOLEAN : SettingsStart(slot, e, valid)
  \/ SettingsRespond(slot)

SimulateStep(slot) ==
  \/ \E ids \in SimulateBodies : SimulateStart(slot, ids[1], ids[2])
  \/ SimulateGet(slot)
  \/ SimulateGotAll(slot)
  \/ \E ok \in BOOLEAN : SimulateRan(slot, ok)
  \/ SimulateSaved(slot)
  \/ SimulateGotAiOptions(slot)
  \/ \E ok \in BOOLEAN, n \in 0..MaxRecommendations : SimulateGenerated(slot, ok, n)
  \/ SimulateSavedRecommendation(slot)
  \/ SimulateRespond(slot)

ApplyStep(slot) ==
  \/ \E id \in 1..2 : ApplyStart(slot, id)
  \/ ApplyGotRecommendation(slot)
  \/ ApplyGotResult(slot)
  \/ ApplyGotModel(slot)
  \/ ApplyCreatedModel(slot)
  \/ ApplyRespond(slot)

NextRoutes ==
  \E slot \in 1..MaxInFlight :
    UploadStep(slot) \/ SettingsStep(slot) \/ SimulateStep(slot) \/ ApplyStep(slot)

InitRoutes == NoFile /\ AppAtRest

SpecRoutes == InitRoutes /\ [][NextRoutes]_vars

(***************************************************************************)
(* C25.  POST /api/models/upload and the store.                            *)
(***************************************************************************)
\* the ids of the uploaded models a step adds to the store
UploadedModelsAdded ==
  {id \in DOMAIN store'.models \ DOMAIN store.models :
     ~store'.models[id].isOptimized}

\* the step is the one in which the handler of slot, analyzeSTL having
\* returned for its file, calls createModel for the model of that id
CreatedAfterAnalysis(slot, id) ==
  /\ reqs[slot].pc = "analyzeSTL"
  /\ reqs'[slot].pc = "createModel"
  /\ \E stlInfo \in {analyzeSTL(reqs[slot].file.buf)} :
       /\ ~stlInfo.threw
       /\ store'.models[id].vertexCount = stlInfo.info.vertexCount
       /\ store'.models[id].faceCount = stlInfo.info.faceCount
  /\ store'.models[id].stlPath = reqs[slot].path

\* analyzeSTL throws for the file of the handler of slot
AnalysisThrows(slot) ==
  /\ reqs[slot].pc = "analyzeSTL"
  /\ analyzeSTL(reqs[slot].file.buf).threw

\* the step ends an upload request with 400
UploadRefusedNow(slot) ==
  /\ reqs'[slot] = Done("upload", 400)
  /\ reqs'[slot] # reqs[slot]

\* C25: in the upload route a model is created only in the step after
\* analyzeSTL returned for the uploaded file, with the vertexCount and
\* faceCount analyzeSTL returned and the path of the stored file as stlPath;
\* when analyzeSTL throws the response is 400, and a step that answers an
\* upload request with 400 (analyzeSTL threw, or no file came) leaves every
\* map and every id counter of the store as it was.
C25_ModelOnlyAfterAnalysis ==
  [][/\ \A id \in UploadedModelsAdded :
          \E slot \in 1..MaxInFlight : CreatedAfterAnalysis(slot, id)
     /\ \A slot \in 1..MaxInFlight :
          /\ AnalysisThrows(slot) /\ reqs'[slot] # reqs[slot]
               => reqs'[slot] = Done("upload", 400)
          /\ UploadRefusedNow(slot) => store' = store]_vars

\* an upload was answered 400 and the model of another upload is stored
C25_Witness ==
  /\ \E slot \in 1..MaxInFlight : reqs[slot] = Done("upload", 400)
  /\ \E slot \in 1..MaxInFlight :
       /\ reqs[slot].pc = "createModel"
       /\ reqs[slot].route = "upload"
       /\ reqs[slot].model.id \in DOMAIN store.models
       /\ store.models[reqs[slot].model.id] = reqs[slot].model

(***************************************************************************)
(* C29.  What the records of the store refer to.                           *)
(***************************************************************************)
RecommendationsReferToResults ==
  \A id \in DOMAIN store.aiRecommendations :
    store.aiRecommendations[id].simulationResultId \in DOMAIN store.simulationResults

ResultsReferToModels ==
  \A id \in DOMAIN store.simulationResults :
    store.simulationResults[id].modelId \in DOMAIN store.models

OptimizedReferToOriginals ==
  \A id \in DOMAIN store.models :
    LET model == store.models[id]
    IN model.isOptimized =>
         /\ model.originalModelId \in DOMAIN store.models
         /\ LET original == store.models[model.originalModelId]
            IN /\ original.stlPath = model.stlPath
               /\ original.vertexCount = model.vertexCount
               /\ original.faceCount = model.faceCount

\* C29: whatever upload, settings, simulate and apply requests were made,
\* and however the awaited steps of their handlers were interleaved, every
\* stored recommendation's simulationResultId is the id of a stored
\* simulation result, every stored simulation result's modelId is the id of
\* a stored model, and every stored model with isOptimized true has as
\* originalModelId the id of a stored model with the same stlPath,
\* vertexCount and faceCount.
C29_ReferentialIntegrity ==
  /\ RecommendationsReferToResults
  /\ ResultsReferToModels
  /\ OptimizedReferToOriginals

\* a recommendation, its simulation result and an optimized model are
\* stored while another request is under way
C29_Witness ==
  /\ store.aiRecommendations # <<>>
  /\ store.simulationResults # <<>>
  /\ \E id \in DOMAIN store.models : store.models[id].isOptimized
  /\ \E slot \in 1..MaxInFlight : ~FreeSlot(slot)

(***************************************************************************)
(* updateAiRecommendation and POST /api/recommendations/:id/apply over     *)
(* stores the routes above do not build: the methods of MemStorage are     *)
(* called directly, so that a recommendation may name a simulation result  *)
(* that is not stored and a simulation result a model that is not stored,  *)
(* while apply requests are handled.                                       *)
(***************************************************************************)
\* most records stored before another create method is called directly
MaxApplyRecords == 4

\* the maps the apply route reads
ApplyEntities == {"models", "simulationResults", "aiRecommendations"}

ApplyCall ==
  \E slot \in 1..MaxInFlight :
    \/ /\ TakesRequest(slot)
       /\ TotalRecords(store) < MaxApplyRecords
       /\ \E e \in ApplyEntities : \E insert \in Inserts[e] :
            StoreCreate(slot, e, insert)
    \/ /\ TakesRequest(slot)
       /\ \E id \in 1..2, data \in UpdateData : StoreUpdate(slot, id, data)
    \/ ApplyStep(slot)

InitApply == NoFile /\ AppAtRest

SpecApply == InitApply /\ [][ApplyCall]_vars

\* the step is a call of updateAiRecommendation from slot
UpdateCalled(slot) ==
  /\ reqs'[slot] # reqs[slot]
  /\ reqs'[slot].pc = "done"
  /\ reqs'[slot].route = "storage"
  /\ reqs'[slot].op = "update"

\* all of st but the recommendation of that id
Rest(st, id) ==
  [st EXCEPT !.aiRecommendations =
     [other \in DOMAIN st.aiRecommendations \ {id} |-> st.aiRecommendations[other]]]

\* a call on an id that is not stored throws "Recommendation not found"
\* and leaves the store; a call on a stored id returns and leaves all but
\* the recommendation of that id
UpdateFrame(slot) ==
  LET id == reqs'[slot].id
  IN IF id \in DOMAIN store.aiRecommendations
     THEN /\ ~reqs'[slot].threw
          /\ id \in DOMAIN store'.aiRecommendations
          /\ Rest(store', id) = Rest(store, id)
     ELSE /\ reqs'[slot].threw
          /\ \A data \in UpdateData :
               updateAiRecommendation(store, id, data).message
                 = "Recommendation not found"
          /\ store' = store

\* the step is one of the apply handler of slot
ApplyStepped(slot) ==
  /\ reqs[slot].pc \notin {"free", "done"}
  /\ reqs[slot].route = "apply"
  /\ reqs'[slot] # reqs[slot]

\* the optimized model the handler of slot created is stored
OptimizedModelCreated(slot) ==
  /\ reqs[slot].pc = "createModel"
  /\ reqs[slot].optimizedModel.isOptimized
  /\ reqs[slot].optimizedModel.id \in DOMAIN store.models
  /\ store.models[reqs[slot].optimizedModel.id] = reqs[slot].optimizedModel

\* C30: updateAiRecommendation on an id without a stored recommendation
\* throws "Recommendation not found" and leaves every map and counter of
\* the store unchanged; on a stored id it changes nothing but the
\* recommendation of that id; a step of an apply handler changes the
\* recommendations only when the optimized model it created is stored, and
\* then it sets applied of its recommendation; and a step that answers an
\* apply request with 404 leaves models and recommendations unchanged.
C30_UpdateAndApplyFrame ==
  [][\A slot \in 1..MaxInFlight :
       /\ UpdateCalled(slot) => UpdateFrame(slot)
       /\ ApplyStepped(slot) /\ store'.aiRecommendations # store.aiRecommendations
            => /\ OptimizedModelCreated(slot)
               /\ store'.aiRecommendations[reqs[slot].id].applied
               /\ Rest(store', reqs[slot].id) = Rest(store, reqs[slot].id)
       /\ ApplyStepped(slot) /\ reqs'[slot] = Done("apply", 404)
            => /\ store'.models = store.models
               /\ store'.aiRecommendations = store.aiRecommendations]_vars

\* updateAiRecommendation has thrown for a missing id, an apply request was
\* answered 404, and another one has created its optimized model and marked
\* its recommendation applied
C30_Witness ==
  /\ \E slot \in 1..MaxInFlight :
       /\ reqs[slot].pc = "done"
       /\ reqs[slot].route = "storage"
       /\ reqs[slot].op = "update"
       /\ reqs[slot].threw
  /\ \E slot \in 1..MaxInFlight : reqs[slot] = Done("apply", 404)
  /\ \E id \in DOMAIN store.aiRecommendations : store.aiRecommendations[id].applied
  /\ \E id \in DOMAIN store.models : store.models[id].isOptimized

====
